---- MODULE Spec2Model ----
(***************************************************************************)
(* A model of fb2converter's KFX repacking pipeline                        *)
(* (src/processor/kfx/convert.go): ConvertFromKpf and the stages it calls  *)
(* (unpackKpf, unwrapKdf, openDB, readSchema, readKfxIDTranslations,       *)
(* readFragmentProperties, readFragments, closeDB).                        *)
(*                                                                         *)
(* Files are sequences of bytes.  The frame geometry of unwrapKdf is       *)
(* scaled down (the code's 0x400 / 0x400 / 0x100000 and its 16, 4 and 5    *)
(* byte patterns become 3 / 3 / 4 and 1, 1 and 1 byte patterns) keeping    *)
(* the relations the code has: wrapperOffset = wrapperLength, the          *)
(* signature is shorter than wrapperOffset, fingerprint and header are     *)
(* followed by filler inside a frame, wrapperFrameLength > wrapperLength.  *)
(* The descrambling loop itself is translated statement by statement and   *)
(* uses the geometry only through these names.                             *)
(***************************************************************************)
EXTENDS Integers, Sequences, FiniteSets, TLC

\* ------------------------------------------------------------------ bounds

\* longest book.kdf of the exhaustive descrambler specification (SpecKdf)
MaxLen == 13
\* longest plain database of the round-trip specification (SpecScramble)
MaxPlainLen == 7
\* most tables a database holds
MaxTables == 4
\* most rows a table holds
MaxRows == 2
\* longest symbol text of the symbol token specification (SpecToken)
MaxSymbolLen == 3
\* longest file DetectFileUTF is given, and its furthest starting offset (SpecUtf)
MaxContentLen == 4
\* most entries of a directory tree (SpecWalk)
MaxFiles == 3
\* most columns of a line of Summary_Log.csv (SpecCsv)
MaxColumns == 8
\* most lines the previewer writes (SpecKpv)
MaxLines == 3
\* most entries of an archive, and most path elements of an entry name (SpecUnzip)
MaxEntries == 2
MaxNameLen == 3

\* ------------------------------------------------------------------ bytes

Byte == {0, 1}

\* a file: whether it exists, and its bytes
File(b) == [exists |-> TRUE, bytes |-> b]
\* a file that does not exist
Absent == [exists |-> FALSE, bytes |-> <<>>]

\* all byte sequences of length 0..n
BytesUpTo(n) == UNION {[1..k -> Byte] : k \in 0..n}

\* data[from:to] of Go, 0-based, half open; like Go's, it is an error (a panic in
\* Go) when from..to is not within the sequence
Slice(s, from, to) == SubSeq(s, from + 1, to)

\* ---------------------------------------------------------- unwrapKdf constants

wrapperOffset == 3
wrapperLength == 3
wrapperFrameLength == 4

signature == <<1>>
fingerprint == <<1>>
header == <<0>>

\* ------------------------------------------------------------------ errors

Err(kind, arg) == [kind |-> kind, arg |-> arg]
\* a nil error
Nil == Err("nil", <<>>)
\* a call that has not returned yet
Running == Err("running", <<>>)
\* fmt.Errorf(prefix + ": %w", err) of ConvertFromKpf; prefix "" is a plain return err
Wrap(prefix, e) == [kind |-> e.kind, arg |-> e.arg, wrap |-> prefix]

\* ------------------------------------------------------------------ state

VARIABLES
  pc,           \* where ConvertFromKpf is
  kpf,          \* the input container: its resources/book.kdf, or Absent
  kdfBook,      \* the file <outDir>/KDF/resources/book.kdf
  sqlFile,      \* the file <outDir>/KDF/book.sqlite
  toKfx,        \* the output file
  data,         \* unwrapKdf: the bytes read
  prev,         \* unwrapKdf: loop variable
  curr,         \* unwrapKdf: loop variable
  unwrapped,    \* unwrapKdf: the output buffer
  book,         \* c.book: the database handle and the Close calls it got
  deferred,     \* whether ConvertFromKpf has deferred c.closeDB()
  tables,       \* c.tables
  mustHave,     \* readSchema: the must-have tables not seen yet
  row,          \* readSchema: the row scanned last (tbl, schema)
  nrows,        \* the rows the running query has returned so far (0 when none runs)
  eidSymbols,   \* c.eidSymbols
  elementTypes, \* c.elementTypes
  fragments,    \* c.fragments
  rdr,          \* readFragments: what decoding $ion_symbol_table gave
  maxid,        \* readFragments: what decoding max_id gave
  names,        \* the database: the names of the tables readSchema's rows have given
  auxRow,       \* the row of kfxid_translation or fragment_properties scanned last
  payload,      \* the database: the rows of fragments besides the two bootstrap rows
  plain,        \* the plain database kpf was scrambled from (round-trip runs), or Absent
  ran,          \* the stages ConvertFromKpf has called, in call order, each with the error it returned
  result,       \* what ConvertFromKpf returned, Running before it returns
  twin,         \* two runs of unwrapKdf side by side: their inputs and outcomes
  tok,          \* one symbol token construction: the text, the builder, the token made
  utf,          \* one call of DetectFileUTF: the file, its read offset, the locals
  zip,          \* one call of archive.Unzip: the directories and files of the disk, the entries taken
  pair,         \* two calls of ConvertFromKpf under way at once: the disk they share, the locals of each
  kpv,          \* one call of NewKindlePreviewerEnv: kpvExec, its reader goroutine, the previewer
  fin,          \* one call of FinalizeKFX: the output file, the overwrite flag, what has been done
  csv,          \* one call of checkResults: the records of Summary_Log.csv, what it returned
  walk          \* one call of processDir: the tree, the entries visited, what was logged

vars == <<pc, kpf, kdfBook, sqlFile, toKfx, data, prev, curr, unwrapped, book, deferred,
          tables, mustHave, row, nrows, eidSymbols, elementTypes, fragments, rdr, maxid,
          names, auxRow, payload, plain, ran, result, twin, tok, utf, zip, pair, kpv, fin, csv, walk>>

\* what lies beside one run of ConvertFromKpf
sideVars == <<twin, tok, utf, zip, pair, kpv, fin, csv, walk>>
fsVars == <<kpf, toKfx, plain, sideVars>>
unwrapVars == <<data, prev, curr, unwrapped>>
dbVars == <<tables, mustHave, row, nrows, eidSymbols, elementTypes, fragments, rdr, maxid,
            names, auxRow, payload>>

\* a nil map
NilMap == [made |-> FALSE, map |-> <<>>]
\* readFragments has decoded nothing yet
NoReader == [val |-> "nil", err |-> "none", imports |-> <<>>, maxID |-> 0]
\* readFragments has not decoded max_id: maxID holds its zero value
NoMaxID == [err |-> "none", value |-> 0]
\* readSchema has scanned no row
NoRow == [tbl |-> "", schema |-> ""]
\* no row of kfxid_translation or fragment_properties is at hand
NoAuxRow == [tbl |-> "", eid |-> 0, kfxid |-> <<>>, id |-> "", key |-> "", value |-> ""]

\* no side-by-side run of unwrapKdf is under way
NoTwin == [pc |-> "none"]

\* no symbol token is being made
NoTok == [pc |-> "none"]

\* DetectFileUTF is not being called
NoUtf == [pc |-> "none"]

\* archive.Unzip is not being called
NoZip == [pc |-> "none"]

\* no two calls of ConvertFromKpf are under way
NoPair == [pc |-> "none"]

\* the previewer is not being run
NoKpv == [pc |-> "none"]

\* FinalizeKFX is not being called
NoFin == [pc |-> "none"]

\* checkResults is not being called
NoCsv == [pc |-> "none"]

\* processDir is not being called
NoWalk == [pc |-> "none"]

\* ------------------------------------------------------------ ConvertFromKpf

\* a slip: the handle is left as it is
closeDBForgets(b) == b

\* closeDB: c.book.Close() when c.book is not nil
closeDB(b) ==
  IF b.state # "nil" THEN [state |-> "closed", closes |-> b.closes + 1] ELSE b

\* a return of ConvertFromKpf with error e: the deferred closeDB runs
ReturnWith(e) ==
  /\ result' = e
  /\ pc' = "done"
  /\ book' = IF deferred THEN closeDB(book) ELSE book

\* a slip: a stage's error is dropped
ReturnsEarlyNever(e) == FALSE

\* a slip: a frame's error is dropped
ReturnsEarlyButForFrames(e) == e # Nil /\ e.kind \notin {"fingerprint", "header"}

\* if err := c.stage(...); err != nil { return ... }
ReturnsEarly(e) == e # Nil

\* ran with a new stage that has not returned yet
Started(stage) == Append(ran, [stage |-> stage, err |-> Running])

\* the last stage of r returns e: ConvertFromKpf returns e wrapped, or goes on to next
StageEnds(r, e, prefix, next) ==
  /\ ran' = [r EXCEPT ![Len(r)].err = e]
  /\ IF ReturnsEarly(e)
     THEN ReturnWith(Wrap(prefix, e))
     ELSE /\ pc' = next
          /\ UNCHANGED <<result, book>>

\* the last stage of r has not returned yet and is at next
StageGoesOn(r, next) ==
  /\ ran' = r
  /\ pc' = next
  /\ UNCHANGED <<result, book>>

\* ----------------------------------------------------------------- unpackKpf

\* unpackKpf: MkdirAll, then archive.Unzip of the container into the KDF directory
UnpackKpf ==
  /\ pc = "unpack"
  /\ \E outcome \in {"ok", "mkdir", "unzip"} :
       /\ kdfBook' = IF outcome = "ok" THEN kpf ELSE kdfBook
       /\ StageEnds(Started("unpackKpf"),
                    IF outcome = "ok" THEN Nil ELSE Err(outcome, <<>>), "", "unwrap")
  /\ UNCHANGED <<fsVars, sqlFile, unwrapVars, dbVars, deferred>>

\* ----------------------------------------------------------------- unwrapKdf

\* len(data) <= len(signature) || len(data) < 2*wrapperOffset
BadLength(d) == Len(d) <= Len(signature) \/ Len(d) < 2 * wrapperOffset

\* a slip: the signature is not looked at
BadSignatureNever(d) == FALSE

\* !bytes.Equal(signature, data[:len(signature)])
BadSignature(d) == signature # Slice(d, 0, Len(signature))

\* the loop condition: curr+wrapperLength <= len(data)
FrameFits(d, c) == c + wrapperLength <= Len(d)

\* data[curr:curr+len(fingerprint)]
FingerprintAt(d, c) == Slice(d, c, c + Len(fingerprint))

\* a slip: the header check reads the fingerprint's bytes again
HeaderAtFingerprint(d, c) ==
  IF Slice(d, c, c + Len(fingerprint)) = fingerprint THEN header ELSE <<>>

\* data[curr+len(fingerprint):curr+len(fingerprint)+len(header)]
HeaderAt(d, c) == Slice(d, c + Len(fingerprint), c + Len(fingerprint) + Len(header))

\* a slip: the frame is not skipped
NextPrevKeepsFrame(c) == c

\* the loop's post statement: prev = curr+wrapperLength
NextPrev(c) == c + wrapperLength

\* a slip: the stride forgets the frame's own length
NextCurrShortStride(c) == c + wrapperFrameLength

\* a slip: the post statement leaves curr where it is
NextCurrStays(c) == c

\* the loop's post statement: curr = curr+wrapperLength+wrapperFrameLength
NextCurr(c) == c + wrapperLength + wrapperFrameLength

\* the error of unwrapKdf's checks before the loop, Nil when they pass
ReadError(f) ==
  IF ~f.exists THEN Err("read", <<>>)
  ELSE IF BadLength(f.bytes) THEN Err("length", <<Len(f.bytes)>>)
  ELSE IF BadSignature(f.bytes) THEN Err("signature", <<Slice(f.bytes, 0, Len(signature))>>)
  ELSE Nil

\* unwrapKdf up to the loop: ReadFile, the length check, the signature check
UnwrapRead ==
  /\ pc = "unwrap"
  /\ data' = IF kdfBook.exists THEN kdfBook.bytes ELSE data
  /\ IF ReadError(kdfBook) # Nil
     THEN /\ StageEnds(Started("unwrapKdf"), ReadError(kdfBook), "", "unwrapped")
          /\ UNCHANGED <<prev, curr, unwrapped>>
     ELSE /\ unwrapped' = <<>>
          /\ prev' = 0
          /\ curr' = wrapperOffset
          /\ StageGoesOn(Started("unwrapKdf"), "loop")
  /\ UNCHANGED <<fsVars, kdfBook, sqlFile, dbVars, deferred>>

\* the error of the loop body's two checks at curr, Nil when they pass
FrameError(d, c) ==
  IF fingerprint # FingerprintAt(d, c) THEN Err("fingerprint", <<FingerprintAt(d, c)>>)
  ELSE IF header # HeaderAt(d, c) THEN Err("header", <<HeaderAt(d, c)>>)
  ELSE Nil

\* one iteration of the loop: the two checks, the append, the post statement
UnwrapFrame ==
  /\ pc = "loop"
  /\ FrameFits(data, curr)
  /\ IF FrameError(data, curr) # Nil
     THEN /\ StageEnds(ran, FrameError(data, curr), "", "unwrapped")
          /\ UNCHANGED <<prev, curr, unwrapped>>
     ELSE /\ unwrapped' = unwrapped \o Slice(data, prev, curr)
          /\ prev' = NextPrev(curr)
          /\ curr' = NextCurr(curr)
          /\ StageGoesOn(ran, "loop")
  /\ UNCHANGED <<fsVars, kdfBook, sqlFile, data, dbVars, deferred>>

\* what os.WriteFile can leave behind when it fails: the file as it was, or a
\* truncated file holding a proper prefix of the bytes
FailedWrite(old, bytes) ==
  {old} \cup {File(Slice(bytes, 0, n)) : n \in 0..(Len(bytes) - 1)}

\* a slip: the bytes after the last frame are dropped
TailOfNothing(d, p) == <<>>

\* data[prev:]
TailOf(d, p) == Slice(d, p, Len(d))

\* the loop's exit: the tail is appended and the result written to sqlFile
UnwrapTail ==
  /\ pc = "loop"
  /\ ~FrameFits(data, curr)
  /\ unwrapped' = unwrapped \o TailOf(data, prev)
  /\ \/ /\ sqlFile' = File(unwrapped')
        /\ StageEnds(ran, Nil, "", "unwrapped")
     \/ /\ sqlFile' \in FailedWrite(sqlFile, unwrapped')
        /\ StageEnds(ran, Err("write", <<>>), "", "unwrapped")
  /\ UNCHANGED <<fsVars, kdfBook, data, prev, curr, dbVars, deferred>>

\* the revision of ConvertFromKpf that ends after unwrapKdf
ReturnAfterUnwrap ==
  /\ pc = "unwrapped"
  /\ ReturnWith(Wrap("", Err("fixme", <<>>)))
  /\ UNCHANGED <<fsVars, kdfBook, sqlFile, unwrapVars, dbVars, deferred, ran>>

\* ------------------------------------------------------------ specifications

\* -------------------------------------------------------------------- openDB

\* openDB: sql.Open; on success ConvertFromKpf defers closeDB
OpenDB ==
  /\ pc = "unwrapped"
  /\ \E ok \in BOOLEAN :
       /\ book' = IF ok THEN [state |-> "open", closes |-> 0] ELSE book
       /\ deferred' = ok
       /\ ran' = Append(ran, [stage |-> "openDB", err |-> IF ok THEN Nil ELSE Err("open", <<>>)])
       /\ IF ReturnsEarly(IF ok THEN Nil ELSE Err("open", <<>>))
          THEN /\ result' = Wrap("unable to open sqlite3 database", Err("open", <<>>))
               /\ pc' = "done"
          ELSE /\ pc' = "schema"
               /\ result' = result
  /\ UNCHANGED <<fsVars, kdfBook, sqlFile, unwrapVars, dbVars>>

\* ---------------------------------------------------------------- readSchema

\* the tables readSchema knows: definition text -> canonical name
knowns ==
  ("CREATE TABLE index_info(namespace char(256), index_name char(256), property char(40), primary key (namespace, index_name)) without rowid" :> "index_info")
  @@ ("CREATE TABLE kfxid_translation(eid INTEGER, kfxid char(40), primary key(eid)) without rowid" :> "kfxid_translation")
  @@ ("CREATE TABLE fragment_properties(id char(40), key char(40), value char(40), primary key (id, key, value)) without rowid" :> "fragment_properties")
  @@ ("CREATE TABLE fragments(id char(40), payload_type char(10), payload_value blob, primary key (id))" :> "fragments")
  @@ ("CREATE TABLE gc_fragment_properties(id varchar(40), key varchar(40), value varchar(40), primary key (id, key, value)) without rowid" :> "gc_fragment_properties")
  @@ ("CREATE TABLE gc_reachable(id varchar(40), primary key (id)) without rowid" :> "gc_reachable")
  @@ ("CREATE TABLE capabilities(key char(20), version smallint, primary key (key, version)) without rowid" :> "capabilities")

\* the tables that must be there
MustHave == {"capabilities", "fragments"}

\* the fragments definition with one more blank, and a definition of no known table
FragmentsRespaced ==
  "CREATE TABLE fragments(id char(40),  payload_type char(10), payload_value blob, primary key (id))"
UnknownDefinition == "CREATE TABLE sqlite_stat1(tbl,idx,stat)"

\* the definition texts and table names a database may hold
Definitions == DOMAIN knowns \cup {FragmentsRespaced, UnknownDefinition}
TableNames == {knowns[d] : d \in DOMAIN knowns} \cup {"sqlite_stat1"}

QueryPrefix == "bad book database, possibly new kindle previewer was installed recently"

\* readSchema up to the loop: c.tables is made, the query runs
ReadSchemaQuery ==
  /\ pc = "schema"
  /\ tables' = {}
  /\ names' = {}
  /\ mustHave' = MustHave
  /\ row' = NoRow
  /\ nrows' = 0
  /\ \E ok \in BOOLEAN :
       IF ok THEN StageGoesOn(Started("readSchema"), "schema_rows")
       ELSE StageEnds(Started("readSchema"), Err("query", <<"sqlite_master">>), QueryPrefix, "eids")
  /\ UNCHANGED <<fsVars, kdfBook, sqlFile, unwrapVars, deferred, auxRow, payload,
                 eidSymbols, elementTypes, fragments, rdr, maxid>>

\* a slip: any definition that mentions the table is taken for the known one
RowErrorByName(tbl, schema) ==
  IF tbl \notin {knowns[d] : d \in DOMAIN knowns}
  THEN Err("unexpected table", <<tbl, schema>>)
  ELSE Nil

\* the error of the loop body's checks of a row (tbl, schema), Nil when they pass
RowError(tbl, schema) ==
  IF schema \notin DOMAIN knowns THEN Err("unexpected table", <<tbl, schema>>)
  ELSE IF knowns[schema] # tbl THEN Err("unexpected table name", <<tbl, schema>>)
  ELSE Nil

\* a slip: only the must-have tables are kept
AddTableMustHaveOnly(ts, tbl) == IF tbl \in MustHave THEN ts \cup {tbl} ELSE ts

\* c.tables[tbl] = struct{}{}
AddTable(ts, tbl) == ts \cup {tbl}

\* one iteration of readSchema's loop: rows.Next() gave a row; sqlite_master
\* holds a table name once
ReadSchemaRow ==
  /\ pc = "schema_rows"
  /\ nrows < MaxTables
  /\ \E tbl \in TableNames \ tables, schema \in Definitions, scanned \in BOOLEAN :
       IF ~scanned
       THEN /\ StageEnds(ran, Err("scan", <<"sqlite_master">>), QueryPrefix, "eids")
            /\ UNCHANGED <<tables, mustHave, row, names>>
            /\ nrows' = 0
       ELSE IF RowError(tbl, schema) # Nil
       THEN /\ StageEnds(ran, RowError(tbl, schema), QueryPrefix, "eids")
            /\ row' = [tbl |-> tbl, schema |-> schema]
            /\ names' = names \cup {tbl}
            /\ UNCHANGED <<tables, mustHave>>
            /\ nrows' = 0
       ELSE /\ mustHave' = mustHave \ {tbl}
            /\ tables' = AddTable(tables, tbl)
            /\ names' = names \cup {tbl}
            /\ row' = [tbl |-> tbl, schema |-> schema]
            /\ StageGoesOn(ran, "schema_rows")
            /\ nrows' = nrows + 1
  /\ UNCHANGED <<fsVars, kdfBook, sqlFile, unwrapVars, deferred, auxRow, payload,
                 eidSymbols, elementTypes, fragments, rdr, maxid>>

\* a slip: only the first must-have table is looked for
AbsentErrorFirstOnly(missing) ==
  IF "capabilities" \in missing THEN Err("missing tables", <<missing>>) ELSE Nil

\* the error of the check after the loop, Nil when no must-have table is missing
AbsentError(missing) ==
  IF Cardinality(missing) > 0 THEN Err("missing tables", <<missing>>) ELSE Nil

\* the end of readSchema's loop: rows.Next() gave false; rows.Err(), the must-have check
ReadSchemaEnd ==
  /\ pc = "schema_rows"
  /\ \E ok \in BOOLEAN :
       StageEnds(ran, IF ~ok THEN Err("rows", <<"sqlite_master">>) ELSE AbsentError(mustHave),
                 QueryPrefix, "eids")
  /\ nrows' = 0
  /\ row' = NoRow
  /\ UNCHANGED <<fsVars, kdfBook, sqlFile, unwrapVars, deferred, names, auxRow, payload,
                 tables, mustHave, eidSymbols, elementTypes, fragments, rdr, maxid>>

\* ------------------------------------------------------------- symbol tokens

\* a string is a sequence of characters
Digits == {"0", "1", "2", "3", "4", "5", "6", "7", "8", "9"}
DigitValue(c) ==
  CASE c = "0" -> 0 [] c = "1" -> 1 [] c = "2" -> 2 [] c = "3" -> 3 [] c = "4" -> 4
    [] c = "5" -> 5 [] c = "6" -> 6 [] c = "7" -> 7 [] c = "8" -> 8 [] c = "9" -> 9

\* the number a sequence of digits denotes, most significant first
RECURSIVE DigitsValue(_, _)
DigitsValue(s, acc) ==
  IF s = <<>> THEN acc ELSE DigitsValue(Tail(s), acc * 10 + DigitValue(Head(s)))

AllDigits(s) == \A i \in 1..Len(s) : s[i] \in Digits

\* strconv.ParseInt(s, 10, 64): an optional sign, then one or more digits. The
\* strings of the model are too short to leave the 64-bit range.
ParseInt(s) ==
  LET signed == Len(s) > 0 /\ s[1] \in {"+", "-"}
      digits == IF signed THEN Tail(s) ELSE s
  IN IF Len(digits) = 0 \/ ~AllDigits(digits)
     THEN [ok |-> FALSE, value |-> 0]
     ELSE [ok |-> TRUE,
           value |-> IF signed /\ s[1] = "-" THEN 0 - DigitsValue(digits, 0)
                     ELSE DigitsValue(digits, 0)]

\* ion.SymbolIDUnknown
SymbolIDUnknown == -1

\* strings.HasPrefix(symbol, "$")
HasDollar(symbol) == Len(symbol) > 0 /\ symbol[1] = "$"

\* createLocalSymbolToken: the token, and whether the warning was logged
createLocalSymbolToken(symbol) ==
  IF HasDollar(symbol) /\ ParseInt(Tail(symbol)).ok
  THEN [text |-> symbol, sid |-> ParseInt(Tail(symbol)).value, warned |-> FALSE]
  ELSE [text |-> symbol, sid |-> SymbolIDUnknown, warned |-> TRUE]

\* ------------------------------------------------------ readKfxIDTranslations

\* a slip: the assignment is lost
MapPutDrops(m, k, v) == [made |-> TRUE, map |-> m.map]

\* m with m[k] = v
MapPut(m, k, v) ==
  [made |-> TRUE, map |-> [x \in DOMAIN m.map \cup {k} |-> IF x = k THEN v ELSE m.map[x]]]

\* an empty map
EmptyMap == [made |-> TRUE, map |-> <<>>]

\* the element ids and kfxid texts a kfxid_translation row may hold
Eids == {1, 2}
KfxIds == {<<"$", "7">>, <<"$", "-", "7">>, <<"$", "x">>, <<"x", "7">>}

\* a slip: an optional table is taken to be there
TableFoundAlways(ts, name) == TRUE

\* _, found := c.tables[name]
TableFound(ts, name) == name \in ts

\* readKfxIDTranslations up to the loop
ReadKfxIDTranslationsQuery ==
  /\ pc = "eids"
  /\ nrows' = 0
  /\ IF ~TableFound(tables, "kfxid_translation")
     THEN /\ StageEnds(Started("readKfxIDTranslations"), Nil, "bad book database", "props")
          /\ UNCHANGED eidSymbols
     ELSE /\ eidSymbols' = EmptyMap
          /\ \E ok \in BOOLEAN :
               IF ok THEN StageGoesOn(Started("readKfxIDTranslations"), "eid_rows")
               ELSE StageEnds(Started("readKfxIDTranslations"),
                              Err("query", <<"kfxid_translation">>), "bad book database", "props")
  /\ UNCHANGED <<fsVars, kdfBook, sqlFile, unwrapVars, deferred, names, auxRow, payload,
                 tables, mustHave, row, elementTypes, fragments, rdr, maxid>>

\* one iteration of the loop: rows.Next() gave a row; eid is the table's primary key
ReadKfxIDTranslationsRow ==
  /\ pc = "eid_rows"
  /\ nrows < MaxRows
  /\ \E e \in Eids \ DOMAIN eidSymbols.map, kfxid \in KfxIds, scanned \in BOOLEAN :
       IF ~scanned
       THEN /\ StageEnds(ran, Err("scan", <<"kfxid_translation">>), "bad book database", "props")
            /\ UNCHANGED eidSymbols
            /\ auxRow' = NoAuxRow
            /\ nrows' = 0
       ELSE /\ eidSymbols' = MapPut(eidSymbols, e, createLocalSymbolToken(kfxid))
            /\ auxRow' = [NoAuxRow EXCEPT !.tbl = "kfxid_translation", !.eid = e, !.kfxid = kfxid]
            /\ StageGoesOn(ran, "eid_rows")
            /\ nrows' = nrows + 1
  /\ UNCHANGED <<fsVars, kdfBook, sqlFile, unwrapVars, deferred, names, payload,
                 tables, mustHave, row, elementTypes, fragments, rdr, maxid>>

\* the end of the loop: rows.Next() gave false; rows.Err()
ReadKfxIDTranslationsEnd ==
  /\ pc = "eid_rows"
  /\ \E ok \in BOOLEAN :
       StageEnds(ran, IF ok THEN Nil ELSE Err("rows", <<"kfxid_translation">>),
                 "bad book database", "props")
  /\ nrows' = 0
  /\ auxRow' = NoAuxRow
  /\ UNCHANGED <<fsVars, kdfBook, sqlFile, unwrapVars, deferred, names, payload,
                 tables, mustHave, row, eidSymbols, elementTypes, fragments, rdr, maxid>>

\* ----------------------------------------------------- readFragmentProperties

\* the ids, keys and values a fragment_properties row may hold
PropIds == {"c1", "c2"}
PropKeys == {"child", "element_type", "parent"}
PropValues == {"section", "storyline"}

\* readFragmentProperties up to the loop
ReadFragmentPropertiesQuery ==
  /\ pc = "props"
  /\ nrows' = 0
  /\ IF ~TableFound(tables, "fragment_properties")
     THEN /\ StageEnds(Started("readFragmentProperties"), Nil, "bad book database", "frags")
          /\ UNCHANGED elementTypes
     ELSE /\ elementTypes' = EmptyMap
          /\ \E ok \in BOOLEAN :
               IF ok THEN StageGoesOn(Started("readFragmentProperties"), "prop_rows")
               ELSE StageEnds(Started("readFragmentProperties"),
                              Err("query", <<"fragment_properties">>), "bad book database", "frags")
  /\ UNCHANGED <<fsVars, kdfBook, sqlFile, unwrapVars, deferred, names, auxRow, payload,
                 tables, mustHave, row, eidSymbols, fragments, rdr, maxid>>

\* one iteration of the loop: rows.Next() gave a row; the switch on key
ReadFragmentPropertiesRow ==
  /\ pc = "prop_rows"
  /\ nrows < MaxRows
  /\ \E id \in PropIds, key \in PropKeys, value \in PropValues, scanned \in BOOLEAN :
       IF ~scanned
       THEN /\ StageEnds(ran, Err("scan", <<"fragment_properties">>), "bad book database", "frags")
            /\ UNCHANGED elementTypes
            /\ auxRow' = NoAuxRow
            /\ nrows' = 0
       ELSE /\ auxRow' = [NoAuxRow EXCEPT !.tbl = "fragment_properties",
                                          !.id = id, !.key = key, !.value = value]
            /\ IF key = "child"
               THEN /\ StageGoesOn(ran, "prop_rows")
                    /\ UNCHANGED elementTypes
                    /\ nrows' = nrows + 1
               ELSE IF key = "element_type"
               THEN /\ elementTypes' = MapPut(elementTypes, id, value)
                    /\ StageGoesOn(ran, "prop_rows")
                    /\ nrows' = nrows + 1
               ELSE /\ StageEnds(ran, Err("unknown key", <<key, id, value>>),
                                 "bad book database", "frags")
                    /\ UNCHANGED elementTypes
                    /\ nrows' = 0
  /\ UNCHANGED <<fsVars, kdfBook, sqlFile, unwrapVars, deferred, names, payload,
                 tables, mustHave, row, eidSymbols, fragments, rdr, maxid>>

\* the end of the loop: rows.Next() gave false; rows.Err()
ReadFragmentPropertiesEnd ==
  /\ pc = "prop_rows"
  /\ \E ok \in BOOLEAN :
       StageEnds(ran, IF ok THEN Nil ELSE Err("rows", <<"fragment_properties">>),
                 "bad book database", "frags")
  /\ nrows' = 0
  /\ auxRow' = NoAuxRow
  /\ UNCHANGED <<fsVars, kdfBook, sqlFile, unwrapVars, deferred, names, payload,
                 tables, mustHave, row, eidSymbols, elementTypes, fragments, rdr, maxid>>

\* ------------------------------------------------------------- readFragments

\* what decoding the $ion_symbol_table payload may give: Decode's value and
\* error, and the names of the imports of the reader's symbol table afterwards
\* (lists of distinct names), and the MaxID of that symbol table
DecodeOutcomes ==
  {[val |-> "nil", err |-> "nil"], [val |-> "value", err |-> "nil"],
   [val |-> "nil", err |-> "noinput"], [val |-> "nil", err |-> "other"]}
ImportNames == {"$ion", "YJ_symbols", "other"}
ImportLists ==
  {l \in UNION {[1..n -> ImportNames] : n \in 0..3} :
     \A i, j \in 1..Len(l) : i # j => l[i] # l[j]}
MaxIDs == {42, 43}

\* what decoding the max_id payload into maxID may give: DecodeTo's error and
\* maxID afterwards (the zero value when nothing was decoded)
MaxIDOutcomes ==
  {[err |-> "other", value |-> 0], [err |-> "noinput", value |-> 0]}
  \cup {[err |-> "nil", value |-> v] : v \in {0} \cup MaxIDs}

\* a slip: the order of the imports is not looked at
SymbolTableErrorAnyOrder(found, r) ==
  IF ~found THEN Err("query", <<"$ion_symbol_table">>)
  ELSE IF r.err \notin {"nil", "noinput"} THEN Err("decode", <<"$ion_symbol_table">>)
  ELSE IF r.val # "nil" THEN Err("unexpected value", <<r.val>>)
  ELSE IF Len(r.imports) # 2 THEN Err("imports count", <<Len(r.imports)>>)
  ELSE IF {r.imports[1], r.imports[2]} # {"$ion", "YJ_symbols"}
  THEN Err("unexpected import", <<r.imports>>)
  ELSE Nil

\* the error of the symbol table bootstrap, Nil when it passes
SymbolTableError(found, r) ==
  IF ~found THEN Err("query", <<"$ion_symbol_table">>)
  ELSE IF r.err \notin {"nil", "noinput"} THEN Err("decode", <<"$ion_symbol_table">>)
  ELSE IF r.val # "nil" THEN Err("unexpected value", <<r.val>>)
  ELSE IF Len(r.imports) # 2 THEN Err("imports count", <<Len(r.imports)>>)
  ELSE IF r.imports[1] # "$ion" \/ r.imports[2] # "YJ_symbols"
  THEN Err("unexpected import", <<r.imports>>)
  ELSE Nil

\* readFragments, the symbol table: c.fragments is made, the $ion_symbol_table
\* row is read and decoded, the imports are checked
ReadFragmentsSymbolTable ==
  /\ pc = "frags"
  /\ fragments' = [made |-> TRUE, list |-> <<>>]
  /\ \E found \in BOOLEAN, dec \in DecodeOutcomes, imports \in ImportLists :
       /\ rdr' = IF found
                 THEN [val |-> dec.val, err |-> dec.err, imports |-> imports, maxID |-> 0]
                 ELSE rdr
       /\ IF SymbolTableError(found, rdr') # Nil
          THEN StageEnds(Started("readFragments"), SymbolTableError(found, rdr'),
                         "bad book database", "finish")
          ELSE StageGoesOn(Started("readFragments"), "frag_maxid")
  /\ UNCHANGED <<fsVars, kdfBook, sqlFile, unwrapVars, deferred, names, auxRow, payload,
                 tables, mustHave, row, nrows, eidSymbols, elementTypes, maxid>>

\* the binary version marker
ionBVM == <<224, 1, 0, 234>>

\* a row of fragments: id (its path segments), payload_type, payload_value
FragmentRow(id, ptype, blob) == [id |-> id, ptype |-> ptype, blob |-> blob]

\* payload values: empty, raw bytes without the marker, the bare marker, and
\* the marker followed by one byte that stands for the value encoded after it
\* (1: one annotation; 0: no annotation; 2: two annotations; 3: two
\* annotations, the second $608; 4: one annotation and no type)
RawBlob == <<137, 80>>
ValueBlob(v) == ionBVM \o <<v>>

\* the rows the fragments table may hold besides $ion_symbol_table and max_id.
\* readFragments ends before its query for them (the code from there on is
\* commented out), so nothing reads them.
PayloadCases ==
  { <<>>,
    <<FragmentRow(<<"images", "cover.jpg">>, "blob", RawBlob)>>,
    <<FragmentRow(<<"c1">>, "blob", <<>>),
      FragmentRow(<<"book_navigation">>, "blob", ionBVM),
      FragmentRow(<<"resource", "a.png">>, "path", RawBlob)>>,
    <<FragmentRow(<<"c1">>, "blob", ValueBlob(1)),
      FragmentRow(<<"images", "cover.jpg">>, "blob", RawBlob),
      FragmentRow(<<"c2">>, "text", RawBlob)>>,
    <<FragmentRow(<<"c1">>, "blob", ValueBlob(0)),
      FragmentRow(<<"images", "cover.jpg">>, "path", RawBlob)>>,
    <<FragmentRow(<<"c1">>, "blob", ValueBlob(2)),
      FragmentRow(<<"c2">>, "blob", ValueBlob(4)),
      FragmentRow(<<"c3">>, "blob", ValueBlob(3)),
      FragmentRow(<<"images", "cover.jpg">>, "path", RawBlob)>> }

\* a slip: the comparison is one-sided
MaxIDErrorOneSided(found, m, symbols) ==
  IF ~found THEN Err("query", <<"max_id">>)
  ELSE IF m.err \notin {"nil", "noinput"} THEN Err("decode", <<"max_id">>)
  ELSE IF m.err = "noinput" /\ m.value = 0 THEN Err("max_id nil", <<>>)
  ELSE IF m.value > symbols THEN Err("max_id mismatch", <<m.value, symbols>>)
  ELSE Nil

\* the error of the max_id cross check, Nil when it passes
MaxIDError(found, m, symbols) ==
  IF ~found THEN Err("query", <<"max_id">>)
  ELSE IF m.err \notin {"nil", "noinput"} THEN Err("decode", <<"max_id">>)
  ELSE IF m.err = "noinput" /\ m.value = 0 THEN Err("max_id nil", <<>>)
  ELSE IF m.value # symbols THEN Err("max_id mismatch", <<m.value, symbols>>)
  ELSE Nil

\* readFragments, the cross check: the max_id row is read and decoded and
\* compared with the symbol table's MaxID; then readFragments returns nil
ReadFragmentsMaxID ==
  /\ pc = "frag_maxid"
  /\ \E found \in BOOLEAN, m \in MaxIDOutcomes, max \in MaxIDs :
       /\ maxid' = IF found THEN m ELSE maxid
       /\ rdr' = IF found /\ m.err = "nil" THEN [rdr EXCEPT !.maxID = max] ELSE rdr
       /\ payload' \in IF MaxIDError(found, maxid', max) = Nil THEN PayloadCases ELSE {payload}
       /\ StageEnds(ran, MaxIDError(found, maxid', max), "bad book database", "finish")
  /\ UNCHANGED <<fsVars, kdfBook, sqlFile, unwrapVars, deferred, names, auxRow,
                 tables, mustHave, row, nrows, eidSymbols, elementTypes, fragments>>

\* the last statement of ConvertFromKpf
Finish ==
  /\ pc = "finish"
  /\ ReturnWith(Wrap("", Err("fixme", <<>>)))
  /\ UNCHANGED <<fsVars, kdfBook, sqlFile, unwrapVars, dbVars, deferred, ran>>

\* the scratch directory may hold a book.sqlite of an earlier run
Stale == File(<<0>>)

\* the state of one run of ConvertFromKpf
pipelineVars == <<pc, kpf, kdfBook, sqlFile, toKfx, unwrapVars, book, deferred, dbVars,
                  plain, ran, result>>

\* a step beside the run: it changes the one named at most
OnlyChanges(side) ==
  /\ UNCHANGED pipelineVars
  /\ side # "twin" => UNCHANGED twin
  /\ side # "tok" => UNCHANGED tok
  /\ side # "utf" => UNCHANGED utf
  /\ side # "zip" => UNCHANGED zip
  /\ side # "pair" => UNCHANGED pair
  /\ side # "kpv" => UNCHANGED kpv
  /\ side # "fin" => UNCHANGED fin
  /\ side # "csv" => UNCHANGED csv
  /\ side # "walk" => UNCHANGED walk

\* all that lies beside the run is idle, but for the one named
SideIdle(side) ==
  /\ side # "twin" => twin = NoTwin
  /\ side # "tok" => tok = NoTok
  /\ side # "utf" => utf = NoUtf
  /\ side # "zip" => zip = NoZip
  /\ side # "pair" => pair = NoPair
  /\ side # "kpv" => kpv = NoKpv
  /\ side # "fin" => fin = NoFin
  /\ side # "csv" => csv = NoCsv
  /\ side # "walk" => walk = NoWalk

InitPipeline ==
  /\ pc = "unpack"
  /\ kdfBook = Absent
  /\ sqlFile \in {Absent, Stale}
  /\ toKfx = Absent
  /\ data = <<>>
  /\ prev = 0
  /\ curr = 0
  /\ unwrapped = <<>>
  /\ book = [state |-> "nil", closes |-> 0]
  /\ deferred = FALSE
  /\ tables = {}
  /\ mustHave = {}
  /\ row = NoRow
  /\ nrows = 0
  /\ eidSymbols = NilMap
  /\ elementTypes = NilMap
  /\ fragments = [made |-> FALSE, list |-> <<>>]
  /\ rdr = NoReader
  /\ maxid = NoMaxID
  /\ names = {}
  /\ auxRow = NoAuxRow
  /\ payload = <<>>
  /\ ran = <<>>
  /\ result = Running

InitCommon ==
  /\ InitPipeline
  /\ SideIdle("")

\* no run of ConvertFromKpf: the specifications of what lies beside it start here
InitBeside(side) ==
  /\ InitPipeline
  /\ sqlFile = Absent
  /\ kpf = Absent
  /\ plain = Absent
  /\ SideIdle(side)

\* every book.kdf of up to MaxLen bytes
InitKdf ==
  /\ InitCommon
  /\ kpf \in {File(b) : b \in BytesUpTo(MaxLen)} \cup {Absent}
  /\ plain = Absent

NextKdf ==
  \/ UnpackKpf
  \/ UnwrapRead
  \/ UnwrapFrame
  \/ UnwrapTail
  \/ ReturnAfterUnwrap

SpecKdf == InitKdf /\ [][NextKdf]_vars

\* the same, with the call scheduled: ConvertFromKpf runs on one goroutine that
\* is never blocked by another, so a step that can be taken is taken
SpecKdfFair == SpecKdf /\ WF_vars(NextKdf)

\* the files of two whole frames of which the first passes the loop's checks
\* and the second does not
DamagedBooks ==
  {b \in [1..(NextCurr(wrapperOffset) + wrapperLength) -> Byte] :
     /\ ReadError(File(b)) = Nil
     /\ FrameError(b, wrapperOffset) = Nil
     /\ FrameError(b, NextCurr(wrapperOffset)) # Nil}

\* every book.kdf up to the shortest length unwrapKdf accepts, every one whose
\* second frame is damaged, or none
Init ==
  /\ InitCommon
  /\ kpf \in {File(b) : b \in BytesUpTo(2 * wrapperOffset) \cup DamagedBooks} \cup {Absent}
  /\ plain = Absent

Next ==
  \/ UnpackKpf
  \/ UnwrapRead
  \/ UnwrapFrame
  \/ UnwrapTail
  \/ OpenDB
  \/ ReadSchemaQuery
  \/ ReadSchemaRow
  \/ ReadSchemaEnd
  \/ ReadKfxIDTranslationsQuery
  \/ ReadKfxIDTranslationsRow
  \/ ReadKfxIDTranslationsEnd
  \/ ReadFragmentPropertiesQuery
  \/ ReadFragmentPropertiesRow
  \/ ReadFragmentPropertiesEnd
  \/ ReadFragmentsSymbolTable
  \/ ReadFragmentsMaxID
  \/ Finish

Spec == Init /\ [][Next]_vars

\* ------------------------------------------------- scrambling (the test's side)

\* the bytes of a frame after its fingerprint and header
FillerLength == wrapperLength - Len(fingerprint) - Len(header)
Fillers == [1..FillerLength -> Byte]

\* an obfuscation frame: fingerprint, header, filler
Frame(filler) == fingerprint \o header \o filler

\* the plain bytes after the first frame: a frame after every further
\* wrapperFrameLength plain bytes
RECURSIVE ScrambleRest(_, _)
ScrambleRest(rest, fills) ==
  IF Len(rest) < wrapperFrameLength
  THEN rest
  ELSE Slice(rest, 0, wrapperFrameLength) \o Frame(Head(fills))
       \o ScrambleRest(Slice(rest, wrapperFrameLength, Len(rest)), Tail(fills))

\* a plain file scrambled: a frame after the first wrapperOffset plain bytes
Scramble(p, fills) ==
  IF Len(p) < wrapperOffset
  THEN p
  ELSE Slice(p, 0, wrapperOffset) \o Frame(Head(fills))
       \o ScrambleRest(Slice(p, wrapperOffset, Len(p)), Tail(fills))

\* the number of frames Scramble inserts into a plain file of n bytes
FrameCount(n) ==
  IF n < wrapperOffset THEN 0 ELSE 1 + ((n - wrapperOffset) \div wrapperFrameLength)

FillsFor(p) == [1..FrameCount(Len(p)) -> Fillers]

\* the 0-based offset of frame k (1-based) in a scrambled file
FrameStart(k) == wrapperOffset + (k - 1) * (wrapperLength + wrapperFrameLength)

\* the offsets of the fingerprint and header bytes of the frames of a scrambled
\* plain file of n bytes
CheckedOffsets(n) ==
  {FrameStart(k) + j : k \in 1..FrameCount(n), j \in 0..(Len(fingerprint) + Len(header) - 1)}

\* s with the byte at 0-based offset i changed to b
Corrupt(s, i, b) == [s EXCEPT ![i + 1] = b]

\* every scramble of p with one fingerprint or header byte changed
Corruptions(p) ==
  {Corrupt(Scramble(p, f), i, b) :
     f \in FillsFor(p), i \in CheckedOffsets(Len(p)), b \in Byte} \ {Scramble(p, f) : f \in FillsFor(p)}

\* plain database files: they open with the signature
PlainFiles ==
  {p \in BytesUpTo(MaxPlainLen) : Len(p) >= Len(signature) /\ ~BadSignature(p)}

\* book.kdf is a scramble of a plain database, intact or with one byte of a
\* frame's fingerprint or header changed
InitScramble ==
  /\ InitCommon
  /\ \E p \in PlainFiles :
       /\ plain = File(p)
       /\ \E s \in {Scramble(p, f) : f \in FillsFor(p)} \cup Corruptions(p) : kpf = File(s)

SpecScramble == InitScramble /\ [][NextKdf]_vars

\* ------------------------------------------------------------------ claims

\* the 0-based offset i of d lies in an obfuscation frame that is wholly inside d
InFrame(d, i) ==
  /\ i >= wrapperOffset
  /\ (i - wrapperOffset) % (wrapperLength + wrapperFrameLength) < wrapperLength
  /\ LET start == i - ((i - wrapperOffset) % (wrapperLength + wrapperFrameLength))
     IN start + wrapperLength <= Len(d)

\* the bytes of d from 0-based offset i on that lie in no such frame, in order
RECURSIVE RealDataFrom(_, _)
RealDataFrom(d, i) ==
  IF i >= Len(d) THEN <<>>
  ELSE (IF InFrame(d, i) THEN <<>> ELSE <<d[i + 1]>>) \o RealDataFrom(d, i + 1)

RealData(d) == RealDataFrom(d, 0)

\* the frames that lie wholly inside a file of n bytes
WholeFrames(n) ==
  IF n < wrapperOffset + wrapperLength THEN 0
  ELSE 1 + ((n - wrapperOffset - wrapperLength) \div (wrapperLength + wrapperFrameLength))

\* unwrapKdf returned one of its own validation errors
UnwrapRejected == result.kind \in {"read", "length", "signature", "fingerprint", "header"}

\* C1: whenever unwrapKdf accepts its input, the bytes it wrote to the
\* destination are exactly the input's real-data bytes in input order: the first
\* wrapperOffset bytes, the span after each frame, the tail, and no byte of a
\* checked frame.
C1_OutputIsRealData ==
  pc = "unwrapped" => sqlFile = File(RealData(data))

\* C1 witness: an input with two checked frames was accepted and written
C1_Witness ==
  /\ pc = "unwrapped"
  /\ WholeFrames(Len(data)) = 2
  /\ Len(sqlFile.bytes) = Len(data) - 2 * wrapperLength

\* book.kdf is an intact scramble of the plain file
ValidScramble ==
  /\ plain.exists
  /\ kpf.exists
  /\ \E f \in FillsFor(plain.bytes) : kpf.bytes = Scramble(plain.bytes, f)

\* book.kdf is a scramble of the plain file with one fingerprint or header byte
\* of a frame changed
CorruptedScramble ==
  /\ plain.exists
  /\ kpf.exists
  /\ kpf.bytes \in Corruptions(plain.bytes)

C3_CorruptionRejected ==
  CorruptedScramble =>
    /\ pc # "unwrapped"
    /\ result.kind # "fixme"
    /\ (pc = "done" /\ Len(ran) = 2) => result.kind \in {"fingerprint", "header"}

\* C3 witness: the second frame's header was changed and unwrapKdf returned the
\* header error after accepting the first frame
C3_Witness ==
  /\ CorruptedScramble
  /\ pc = "done"
  /\ result.kind = "header"
  /\ curr = FrameStart(2)

\* the last stage ConvertFromKpf called
LastStage == ran[Len(ran)]

\* ConvertFromKpf called the stage, and the error the stage returned
Called(stage) == \E i \in 1..Len(ran) : ran[i].stage = stage
ErrorOf(stage) == ran[CHOOSE i \in 1..Len(ran) : ran[i].stage = stage].err

\* the row scanned last is no exact entry of the catalog, or carries another name
RowUnrecognized == row # NoRow /\ row.schema \notin DOMAIN knowns
RowMisnamed == row # NoRow /\ row.schema \in DOMAIN knowns /\ knowns[row.schema] # row.tbl

\* C4: readSchema goes on past a row only when the row's definition text is
\* exactly a catalog entry stored under the catalog's name for it; a row whose
\* text is no catalog entry (one more blank is enough) ends readSchema at once
\* with the unexpected-table error, a row whose name differs with the
\* unexpected-name error, ConvertFromKpf returns it, and the table is not
\* added to the verified set.
C4_ExactMatch ==
  /\ (RowUnrecognized \/ RowMisnamed) =>
       /\ pc = "done"
       /\ LastStage.stage = "readSchema"
       /\ LastStage.err =
            Err(IF RowUnrecognized THEN "unexpected table" ELSE "unexpected table name",
                <<row.tbl, row.schema>>)
       /\ result.kind = LastStage.err.kind
       /\ row.tbl \notin tables
  /\ (Called("readSchema") /\ ErrorOf("readSchema").kind \in {"unexpected table", "unexpected table name"})
       => (RowUnrecognized \/ RowMisnamed)

\* C4 witness: a fragments table whose definition has one more blank was
\* rejected after capabilities had been accepted
C4_Witness ==
  /\ pc = "done"
  /\ row = [tbl |-> "fragments", schema |-> FragmentsRespaced]
  /\ tables = {"capabilities"}
  /\ result.kind = "unexpected table"

\* C5: readSchema returns nil only when both must-have tables were seen; when
\* all rows were recognized and a must-have table was not seen, it fails with the
\* missing-tables error, which names exactly the must-have tables that are not
\* in the verified set.
C5_MustHave ==
  Called("readSchema") =>
    /\ ErrorOf("readSchema") = Nil => MustHave \subseteq tables
    /\ ErrorOf("readSchema").kind = "missing tables" =>
         /\ ErrorOf("readSchema").arg = <<MustHave \ tables>>
         /\ MustHave \ tables # {}
         /\ result.kind = "missing tables"
    /\ (pc = "done" /\ LastStage.stage = "readSchema"
          /\ LastStage.err.kind \notin {"query", "scan", "rows", "unexpected table", "unexpected table name"})
         => LastStage.err = Err("missing tables", <<MustHave \ tables>>)

\* C5 witness: only fragments is missing, with optional tables present
C5_Witness ==
  /\ pc = "done"
  /\ result.kind = "missing tables"
  /\ result.arg = <<{"fragments"}>>
  /\ {"capabilities", "kfxid_translation", "index_info"} \subseteq tables

\* readFragments rejected the symbol table fragment
SymbolTableRejected ==
  /\ Called("readFragments")
  /\ \/ ErrorOf("readFragments").kind \in {"unexpected value", "imports count", "unexpected import"}
     \/ ErrorOf("readFragments") \in {Err("query", <<"$ion_symbol_table">>),
                                      Err("decode", <<"$ion_symbol_table">>)}

\* C6: when max_id decodes to an integer, readFragments fails with the
\* cross-validation error if that integer differs from the symbol table's MaxID,
\* and returns nil if the two are equal (the import checks have passed by then).
C6_MaxIDCrossCheck ==
  (Called("readFragments") /\ maxid.err = "nil") =>
    /\ ~SymbolTableRejected
    /\ IF maxid.value # rdr.maxID
       THEN /\ ErrorOf("readFragments") = Err("max_id mismatch", <<maxid.value, rdr.maxID>>)
            /\ pc = "done"
            /\ result.kind = "max_id mismatch"
       ELSE ErrorOf("readFragments") = Nil

\* C6 witness: 42 in max_id against a symbol table of 43 symbols was rejected
C6_Witness ==
  /\ pc = "done"
  /\ maxid = [err |-> "nil", value |-> 42]
  /\ rdr.maxID = 43
  /\ result.kind = "max_id mismatch"

\* C7: once the $ion_symbol_table row is read, the bootstrap goes on exactly
\* when decoding gave no value (and no error but "no input") and the symbol
\* table has exactly the two imports "$ion", "YJ_symbols" in that order;
\* otherwise readFragments fails and ConvertFromKpf returns that error.
C7_SymbolTableBootstrap ==
  (Called("readFragments") /\ rdr # NoReader) =>
    /\ ~SymbolTableRejected <=>
         /\ rdr.val = "nil"
         /\ rdr.err \in {"nil", "noinput"}
         /\ rdr.imports = <<"$ion", "YJ_symbols">>
    /\ SymbolTableRejected => pc = "done" /\ result.kind = ErrorOf("readFragments").kind

\* C7 witness: the two imports in swapped order were rejected
C7_Witness ==
  /\ pc = "done"
  /\ rdr.val = "nil"
  /\ rdr.imports = <<"YJ_symbols", "$ion">>
  /\ result.kind = "unexpected import"

\* the stages of ConvertFromKpf in their order
StageOrder ==
  <<"unpackKpf", "unwrapKdf", "openDB", "readSchema", "readKfxIDTranslations",
    "readFragmentProperties", "readFragments">>

\* C8: the stages run in the order unpack, descramble, open, schema, id
\* translations, fragment properties, fragments; a stage is called only after
\* every earlier one returned nil; a stage's error ends ConvertFromKpf, which
\* returns that error and has called no later stage.
C8_StageOrder ==
  /\ Len(ran) <= Len(StageOrder)
  /\ \A i \in 1..Len(ran) : ran[i].stage = StageOrder[i]
  /\ \A i \in 1..(Len(ran) - 1) : ran[i].err = Nil
  /\ pc # "done" => result = Running /\ (ran # <<>> => LastStage.err \in {Nil, Running})
  /\ pc = "done" =>
       /\ ran # <<>>
       /\ LastStage.err # Running
       /\ LastStage.err # Nil => result.kind = LastStage.err.kind /\ result.arg = LastStage.err.arg
       /\ LastStage.err = Nil => Len(ran) = Len(StageOrder)

\* C8 witness: readFragmentProperties failed on an unknown key and ConvertFromKpf
\* returned that error without calling readFragments
C8_Witness ==
  /\ pc = "done"
  /\ Len(ran) = 6
  /\ result.kind = "unknown key"

\* no stage of a finished run failed
AllStagesSucceeded ==
  /\ pc = "done"
  /\ Len(ran) = Len(StageOrder)
  /\ \A i \in 1..Len(ran) : ran[i].err = Nil

\* C9: when no stage fails ConvertFromKpf returns nil, and whenever it returns
\* nil the output file has been written.
C9_SuccessWhenNoStageFails ==
  /\ AllStagesSucceeded => result.kind = "nil"
  /\ (pc = "done" /\ result.kind = "nil") => toKfx.exists

\* C10: when ConvertFromKpf has returned after openDB succeeded, the handle has
\* been closed by exactly one Close call, whichever stage ended the run; the
\* handle is never open after the return and never closed before it.
C10_HandleReleased ==
  /\ (pc = "done" /\ Called("openDB") /\ ErrorOf("openDB") = Nil)
       => book = [state |-> "closed", closes |-> 1]
  /\ pc = "done" => book.state # "open"
  /\ pc # "done" => book.closes = 0

\* C10 witness: the run ended in readFragments' cross check and the handle was closed
C10_Witness ==
  /\ pc = "done"
  /\ result.kind = "max_id mismatch"
  /\ book = [state |-> "closed", closes |-> 1]

\* ---- the rows of fragments and the fragments the specification expects of them

\* strings.HasPrefix(id, "resource/"), and the id a resource fragment gets
ResourcePrefixed(id) == Len(id) > 1 /\ id[1] = "resource"
ResourceId(id) == IF ResourcePrefixed(id) THEN id ELSE <<"resource">> \o id

\* bytes.HasPrefix(blob, ionBVM)
HasMarker(blob) == Len(blob) >= Len(ionBVM) /\ SubSeq(blob, 1, Len(ionBVM)) = ionBVM

\* the row is to become a resource fragment: a path row, or a blob with bytes
\* that do not open with the marker
IsResourceRow(r) ==
  \/ r.ptype = "path"
  \/ r.ptype = "blob" /\ r.blob # <<>> /\ ~HasMarker(r.blob)

\* the row is to be passed over: an empty blob, or the bare marker
IsEmptyRow(r) == r.ptype = "blob" /\ (r.blob = <<>> \/ r.blob = ionBVM)

\* the row is a blob whose value has no annotation, two annotations of which the
\* second is not $608, or no type
IsFaultyValueRow(r) ==
  r.ptype = "blob" /\ r.blob \in {ValueBlob(0), ValueBlob(2), ValueBlob(4)}

\* the row's payload type is neither blob nor path
IsUnsupportedRow(r) == r.ptype \notin {"blob", "path"}

\* the row is to become a fragment
IsFragmentRow(r) ==
  IsResourceRow(r) \/ (r.ptype = "blob" /\ r.blob \in {ValueBlob(1), ValueBlob(3)})

\* the resource fragment of a row: type $417, the prefixed id, the bytes as they are
ResourceFragment(r) == [ftype |-> "$417", fid |-> ResourceId(r.id), data |-> r.blob]

\* how often fragment f is in c.fragments
Occurrences(f) == Cardinality({j \in 1..Len(fragments.list) : fragments.list[j] = f})

\* readFragments has returned, and what it returned
ReadFragmentsReturned == Called("readFragments") /\ ErrorOf("readFragments") # Running
ReadFragmentsSucceeded == Called("readFragments") /\ ErrorOf("readFragments") = Nil

\* C11: when readFragments has returned nil, every path row and every blob row
\* with bytes that lack the version marker has exactly one fragment in
\* c.fragments, of type $417, with the row id prefixed with "resource/" unless it
\* has that prefix, and with the row's bytes; an empty blob and a bare marker
\* have no fragment.
C11_FragmentClassification ==
  ReadFragmentsSucceeded =>
    \A i \in 1..Len(payload) :
      /\ IsResourceRow(payload[i]) => Occurrences(ResourceFragment(payload[i])) = 1
      /\ IsEmptyRow(payload[i]) =>
           \A j \in 1..Len(fragments.list) : fragments.list[j].fid # payload[i].id

\* the first row of an unsupported payload type, 0 when there is none
FirstUnsupported ==
  IF \E i \in 1..Len(payload) : IsUnsupportedRow(payload[i])
  THEN CHOOSE i \in 1..Len(payload) :
         /\ IsUnsupportedRow(payload[i])
         /\ \A k \in 1..(i - 1) : ~IsUnsupportedRow(payload[k])
  ELSE 0

\* C12: when the fragments table holds a row whose payload type is neither blob
\* nor path, readFragments returns the unexpected-payload-type error naming the
\* type, the id and the payload size, and c.fragments holds the fragments of the
\* rows before that row (two for an annotated row, a raw blob and an
\* unsupported row).
C12_UnexpectedPayloadType ==
  (ReadFragmentsReturned /\ FirstUnsupported > 0) =>
    LET r == payload[FirstUnsupported]
    IN /\ ErrorOf("readFragments") =
            Err("unexpected payload type", <<r.ptype, r.id, Len(r.blob)>>)
       /\ Len(fragments.list) =
            Cardinality({k \in 1..(FirstUnsupported - 1) : IsFragmentRow(payload[k])})

\* C13: a blob row whose value has no annotation, more than one annotation
\* (unless the second is $608) or no type has no fragment and does not end
\* readFragments: the rows after it are still read (a later resource row has its
\* fragment), and readFragments returns nil when no row is of an unsupported type.
C13_PerFragmentErrorsNonFatal ==
  ReadFragmentsReturned =>
    \A i \in 1..Len(payload) :
      IsFaultyValueRow(payload[i]) =>
        /\ \A j \in 1..Len(fragments.list) : fragments.list[j].fid # payload[i].id
        /\ FirstUnsupported = 0 => ErrorOf("readFragments") = Nil
        /\ \A k \in (i + 1)..Len(payload) :
             (IsResourceRow(payload[k]) /\ (FirstUnsupported = 0 \/ k < FirstUnsupported))
               => Occurrences(ResourceFragment(payload[k])) = 1

\* a step of readFragmentProperties' loop in which a row was scanned
PropertyRowStep == pc = "prop_rows" /\ auxRow'.tbl = "fragment_properties"

\* the maps agree but for key k
SameBut(m, n, k) ==
  /\ DOMAIN n.map \ {k} = DOMAIN m.map \ {k}
  /\ \A x \in DOMAIN m.map \ {k} : n.map[x] = m.map[x]

\* C14: in every step of readFragmentProperties that scans a row, key "child"
\* leaves c.elementTypes as it is and the loop goes on, key "element_type" sets
\* c.elementTypes[id] = value and changes no other entry and the loop goes on,
\* and any other key changes nothing, ends readFragmentProperties with the
\* unknown-key error naming key, id and value, and ConvertFromKpf returns it (no
\* further row is read).
C14_ElementTypeReader ==
  [][PropertyRowStep =>
       IF auxRow'.key = "child"
       THEN elementTypes' = elementTypes /\ pc' = "prop_rows" /\ result' = Running
       ELSE IF auxRow'.key = "element_type"
       THEN /\ auxRow'.id \in DOMAIN elementTypes'.map
            /\ elementTypes'.map[auxRow'.id] = auxRow'.value
            /\ SameBut(elementTypes, elementTypes', auxRow'.id)
            /\ pc' = "prop_rows" /\ result' = Running
       ELSE /\ elementTypes' = elementTypes
            /\ pc' = "done"
            /\ ran'[Len(ran')] =
                 [stage |-> "readFragmentProperties",
                  err |-> Err("unknown key", <<auxRow'.key, auxRow'.id, auxRow'.value>>)]
            /\ result'.kind = "unknown key"
            /\ result'.arg = <<auxRow'.key, auxRow'.id, auxRow'.value>>]_vars

\* C14 witness: a row with key "parent" ended the reader after an element_type
\* row had been recorded
C14_Witness ==
  /\ pc = "done"
  /\ auxRow.key = "parent"
  /\ result.kind = "unknown key"
  /\ elementTypes.map = ("c1" :> "section")

\* the text is "$" followed by one or more digits
DollarDigits(symbol) == HasDollar(symbol) /\ Len(symbol) > 1 /\ AllDigits(Tail(symbol))

\* C15: after readKfxIDTranslations has scanned a row, c.eidSymbols holds a
\* token with the row's text under the row's eid, the reader is still in its
\* loop and no error was returned; when the text is not of the form "$<digits>"
\* the token has the unknown sentinel id and the warning was logged.
C15_TranslationNeverFatal ==
  auxRow.tbl = "kfxid_translation" =>
    /\ pc = "eid_rows"
    /\ result = Running
    /\ auxRow.eid \in DOMAIN eidSymbols.map
    /\ eidSymbols.map[auxRow.eid].text = auxRow.kfxid
    /\ ~DollarDigits(auxRow.kfxid) =>
         /\ eidSymbols.map[auxRow.eid].sid = SymbolIDUnknown
         /\ eidSymbols.map[auxRow.eid].warned

\* the file is there and opens with the signature
OpensWithSignature(f) ==
  /\ f.exists
  /\ Len(f.bytes) >= Len(signature)
  /\ SubSeq(f.bytes, 1, Len(signature)) = signature

\* C16: when book.kdf does not open with the signature, unwrapKdf returns an
\* error from its checks before the loop, ConvertFromKpf returns it, no frame
\* was processed (the loop variables and the output buffer are untouched) and
\* nothing was written.
C16_SignatureRequired ==
  (Called("unwrapKdf") /\ ~OpensWithSignature(kdfBook)) =>
    /\ pc = "done"
    /\ ErrorOf("unwrapKdf").kind \in {"read", "length", "signature"}
    /\ result.kind = ErrorOf("unwrapKdf").kind
    /\ prev = 0 /\ curr = 0 /\ unwrapped = <<>>
    /\ sqlFile \in {Absent, Stale}

\* C16 witness: a file of the longest length with another first byte was
\* rejected with the signature error naming the bytes found
C16_Witness ==
  /\ pc = "done"
  /\ Len(data) = MaxLen
  /\ result = Wrap("", Err("signature", <<Slice(data, 0, Len(signature))>>))

\* the bytes from the next frame position on
Remaining(d, c) == Len(d) - c

\* C18 as stated, for every file that opens with the signature: when fewer than
\* wrapperLength bytes remain at the first frame position, unwrapKdf is not
\* ended by one of its checks, and when it has succeeded the file was written as
\* it is.
C18_TailRuleAnySigned ==
  (Called("unwrapKdf") /\ OpensWithSignature(kdfBook)
     /\ Remaining(kdfBook.bytes, wrapperOffset) < wrapperLength) =>
    /\ ErrorOf("unwrapKdf").kind \in {"running", "nil", "write"}
    /\ ErrorOf("unwrapKdf") = Nil => sqlFile = kdfBook

\* C18: a file that opens with the signature and holds at least 2*wrapperOffset
\* bytes enters the loop; once fewer than wrapperLength bytes remain at the next
\* frame position, the next step checks no fingerprint: it appends all bytes from
\* prev on to the output as they are and unwrapKdf returns nil with the output
\* written, unless writing the destination fails.
C18_TailRule ==
  [][/\ (pc = "unwrap" /\ OpensWithSignature(kdfBook)
           /\ Len(kdfBook.bytes) >= 2 * wrapperOffset) => pc' = "loop"
     /\ (pc = "loop" /\ Remaining(data, curr) < wrapperLength) =>
          /\ unwrapped' = unwrapped \o SubSeq(data, prev + 1, Len(data))
          /\ ran'[Len(ran')].err.kind \in {"nil", "write"}
          /\ ran'[Len(ran')].err = Nil =>
               pc' = "unwrapped" /\ sqlFile' = File(unwrapped')]_vars

\* C18 witness: two bytes were left at the second frame position and went into
\* the output with the real data before them
C18_Witness ==
  /\ pc = "unwrapped"
  /\ Remaining(data, NextCurr(wrapperOffset)) = wrapperLength - 1
  /\ curr = NextCurr(wrapperOffset)
  /\ sqlFile = File(SubSeq(data, 1, wrapperOffset)
                    \o SubSeq(data, wrapperOffset + wrapperLength + 1, Len(data)))

\* the errors of unwrapKdf's checks, all of them made before anything is written
BeforeWrite == {"read", "length", "signature", "fingerprint", "header"}

\* C17 as stated, for every failing path: a step of unwrapKdf that ends it with
\* an error leaves the destination file as it was.
C17_EveryFailureLeavesNoFile ==
  [][(pc \in {"unwrap", "loop"} /\ ran'[Len(ran')].err.kind \notin {"running", "nil"})
       => sqlFile' = sqlFile]_vars

\* C17: while unwrapKdf runs and when it ends with the read, length, signature,
\* fingerprint or header error (at the first frame or a later one), the
\* destination file stays as it was (absent, or the file of an earlier run);
\* ConvertFromKpf then returns that error and has not called openDB: the handle
\* is nil.
C17_FailureLeavesNoFile ==
  [][(pc \in {"unwrap", "loop"} /\ ran'[Len(ran')].err.kind \in {"running"} \cup BeforeWrite)
       => /\ sqlFile' = sqlFile
          /\ ran'[Len(ran')].err.kind \in BeforeWrite =>
               /\ pc' = "done"
               /\ result'.kind = ran'[Len(ran')].err.kind
               /\ result'.arg = ran'[Len(ran')].err.arg
               /\ ran'[Len(ran')].stage = "unwrapKdf"
               /\ book' = [state |-> "nil", closes |-> 0]]_vars

\* C17 witness: the second frame failed after the first had passed and its
\* real data had been taken, and the file of an earlier run is still there
C17_Witness ==
  /\ pc = "done"
  /\ result.kind \in {"fingerprint", "header"}
  /\ curr = NextCurr(wrapperOffset)
  /\ unwrapped = SubSeq(data, 1, wrapperOffset)
  /\ sqlFile = Stale
  /\ ~Called("openDB")

\* the canonical names of the catalog
CanonicalNames == {knowns[d] : d \in DOMAIN knowns}

\* C19: when readSchema has returned nil, c.tables is exactly the set of the
\* table names its query gave, every member is a canonical name of the catalog,
\* and capabilities and fragments are members.
C19_VerifiedTableSet ==
  (Called("readSchema") /\ ErrorOf("readSchema") = Nil) =>
    /\ tables = names
    /\ tables \subseteq CanonicalNames
    /\ {"capabilities", "fragments"} \subseteq tables

\* C19 witness: a database of the two must-have tables and two optional ones
\* passed
C19_Witness ==
  /\ Called("readSchema") /\ ErrorOf("readSchema") = Nil
  /\ names = {"capabilities", "fragments", "index_info", "gc_reachable"}
  /\ tables = names

\* everything but the position, the stage log and the row counter stays as it is
OnlyStageLogged(stage) ==
  /\ ran' = Append(ran, [stage |-> stage, err |-> Nil])
  /\ result' = Running
  /\ UNCHANGED <<kpf, kdfBook, sqlFile, toKfx, data, prev, curr, unwrapped, book, deferred,
                 tables, mustHave, row, eidSymbols, elementTypes, fragments, rdr, maxid,
                 names, auxRow, payload>>

\* C20: when kfxid_translation is not in c.tables, readKfxIDTranslations returns
\* nil in one step without a query (no row is read, no query error can come) and
\* leaves c.eidSymbols, c.elementTypes and every other field as they are; the
\* same holds for readFragmentProperties and fragment_properties; either reader
\* does so whatever the other's table is.
C20_AbsentTableNoOp ==
  [][/\ (pc = "eids" /\ "kfxid_translation" \notin tables) =>
          pc' = "props" /\ OnlyStageLogged("readKfxIDTranslations")
     /\ (pc = "props" /\ "fragment_properties" \notin tables) =>
          pc' = "frags" /\ OnlyStageLogged("readFragmentProperties")]_vars

\* C20 witness: without kfxid_translation c.eidSymbols is still nil after both
\* readers, while fragment_properties was there and was read
C20_Witness ==
  /\ pc = "frags"
  /\ "kfxid_translation" \notin tables
  /\ "fragment_properties" \in tables
  /\ eidSymbols = NilMap
  /\ elementTypes.made /\ DOMAIN elementTypes.map # {}

\* ---------------------------------------------------------------------------
\* C25  unwrapKdf is memory-safe and terminates for every book.kdf, whatever
\* its length: in the loop 0 <= prev <= curr and prev <= len(data), so
\* data[prev:curr] of an iteration and data[prev:] of the tail are within the
\* data; the bytes an iteration compares lie within curr+wrapperLength <=
\* len(data); data[:len(signature)] is read of data longer than the signature
\* only; every iteration increases curr; and the call returns, with success or
\* with an error.

\* every slice expression unwrapKdf evaluates in this state is within data
SlicesWithinData ==
  pc = "loop" =>
    /\ Len(data) > Len(signature)
    /\ 0 <= prev /\ prev <= curr /\ prev <= Len(data)
    /\ curr + wrapperLength <= Len(data) =>
          /\ curr + Len(fingerprint) <= Len(data)
          /\ curr + Len(fingerprint) + Len(header) <= Len(data)

\* a step of the loop that stays in the loop increases curr
CurrIncreases == (pc = "loop" /\ pc' = "loop") => curr' > curr

C25_MemorySafeAndTerminates ==
  /\ []SlicesWithinData
  /\ [][CurrIncreases]_vars
  /\ <>(result # Running)

\* a file of two whole frames has been descrambled: two iterations, then the tail
C25_Witness ==
  /\ result # Running
  /\ Called("unwrapKdf") /\ ErrorOf("unwrapKdf") = Nil
  /\ curr = NextCurr(NextCurr(wrapperOffset))
  /\ prev = Len(data)

\* ---------------------------------------------------------------------------
\* unwrapKdf as a function of the bytes of book.kdf: the error it returns and
\* the bytes it hands to os.WriteFile

\* the loop from (prev, curr) on, with the output so far
RECURSIVE unwrapLoop(_, _, _, _)
unwrapLoop(d, p, c, u) ==
  IF ~FrameFits(d, c) THEN [err |-> Nil, out |-> u \o TailOf(d, p)]
  ELSE IF FrameError(d, c) # Nil THEN [err |-> FrameError(d, c), out |-> <<>>]
  ELSE unwrapLoop(d, NextPrev(c), NextCurr(c), u \o Slice(d, p, c))

unwrapKdf(f) ==
  IF ReadError(f) # Nil THEN [err |-> ReadError(f), out |-> <<>>]
  ELSE unwrapLoop(f.bytes, 0, wrapperOffset, <<>>)

\* the 0-based offsets of d that lie in a whole frame after its fingerprint and header
FillerOffsets(d) ==
  {FrameStart(k) + j : k \in 1..WholeFrames(Len(d)),
                       j \in (Len(fingerprint) + Len(header))..(wrapperLength - 1)}

\* the byte sequences equal to d everywhere but at filler offsets
Refilled(d) ==
  {[i \in 1..Len(d) |-> IF (i - 1) \in FillerOffsets(d) THEN f[i - 1] ELSE d[i]] :
     f \in [FillerOffsets(d) -> Byte]}

\* a call that has not been made
NotRun == [err |-> Running, out |-> <<>>]

\* unwrapKdf is called on the first file
UnwrapFirst ==
  /\ twin.pc = "run"
  /\ twin.ra = NotRun
  /\ twin' = [twin EXCEPT !.ra = unwrapKdf(File(twin.a))]
  /\ OnlyChanges("twin")

\* unwrapKdf is called on the second file
UnwrapSecond ==
  /\ twin.pc = "run"
  /\ twin.rb = NotRun
  /\ twin' = [twin EXCEPT !.rb = unwrapKdf(File(twin.b))]
  /\ OnlyChanges("twin")

\* two files of up to MaxLen bytes that differ in frame filler at most
InitFiller ==
  /\ InitBeside("twin")
  /\ \E a \in BytesUpTo(MaxLen) : \E b \in Refilled(a) :
       twin = [pc |-> "run", a |-> a, b |-> b, ra |-> NotRun, rb |-> NotRun]

NextFiller ==
  \/ UnwrapFirst
  \/ UnwrapSecond

SpecFiller == InitFiller /\ [][NextFiller]_vars

\* C26  The descrambled output does not depend on frame filler: two files that
\* are equal everywhere except in bytes of whole obfuscation frames after the
\* frame's fingerprint and header give the same unwrapKdf outcome, the same
\* error or the same output bytes.
C26_FillerIndependent ==
  (twin.pc = "run" /\ twin.ra # NotRun /\ twin.rb # NotRun) => twin.ra = twin.rb

\* two files of two whole frames each, with different filler in both frames,
\* have been descrambled with success
C26_Witness ==
  /\ twin.pc = "run" /\ twin.ra # NotRun /\ twin.rb # NotRun
  /\ twin.ra.err = Nil
  /\ WholeFrames(Len(twin.a)) = 2
  /\ \A i \in FillerOffsets(twin.a) : twin.a[i + 1] # twin.b[i + 1]

\* ---------------------------------------------------------------------------
\* symbol tokens: createSymbolToken and createLocalSymbolToken

\* a nil ion.SymbolTableBuilder
NilBuilder == [nil |-> TRUE, syms |-> <<>>, adds |-> 0]

\* a builder that holds the symbols syms
Builder(syms) == [nil |-> FALSE, syms |-> syms, adds |-> 0]

\* the id stb.Add(symbol) returns: that of the symbol when the builder holds
\* it, else the next free one
AddedID(stb, symbol) ==
  IF \E i \in 1..Len(stb.syms) : stb.syms[i] = symbol
  THEN CHOOSE i \in 1..Len(stb.syms) : stb.syms[i] = symbol
  ELSE Len(stb.syms) + 1

\* the builder after stb.Add(symbol)
Added(stb, symbol) ==
  [nil |-> FALSE,
   syms |-> IF \E i \in 1..Len(stb.syms) : stb.syms[i] = symbol
            THEN stb.syms ELSE Append(stb.syms, symbol),
   adds |-> stb.adds + 1]

\* createSymbolToken: the token, and the builder after the call
createSymbolToken(symbol, stb) ==
  IF ~HasDollar(symbol)
  THEN IF ~stb.nil
       THEN [text |-> symbol, sid |-> AddedID(stb, symbol), stb |-> Added(stb, symbol)]
       ELSE [text |-> symbol, sid |-> SymbolIDUnknown, stb |-> stb]
  ELSE IF ParseInt(Tail(symbol)).ok
       THEN [text |-> symbol, sid |-> ParseInt(Tail(symbol)).value, stb |-> stb]
       ELSE [text |-> symbol, sid |-> SymbolIDUnknown, stb |-> stb]

\* the characters of the symbol texts
SymbolChars == {"$", "-", "+", "0", "7", "x"}
Symbols == UNION {[1..n -> SymbolChars] : n \in 0..MaxSymbolLen}

\* the builders: none, an empty one, one that holds a symbol already
Builders == {NilBuilder, Builder(<<>>), Builder(<< <<"x">> >>)}

\* createSymbolToken(symbol, stb) is called
CreateSymbolToken ==
  /\ tok.pc = "call"
  /\ tok' = [tok EXCEPT !.pc = "createSymbolToken",
                         !.token = [text |-> createSymbolToken(tok.symbol, tok.stb).text,
                                    sid |-> createSymbolToken(tok.symbol, tok.stb).sid],
                         !.stb = createSymbolToken(tok.symbol, tok.stb).stb]
  /\ OnlyChanges("tok")

\* createLocalSymbolToken(symbol, log) is called
CreateLocalSymbolToken ==
  /\ tok.pc = "call"
  /\ tok' = [tok EXCEPT !.pc = "createLocalSymbolToken",
                         !.token = [text |-> createLocalSymbolToken(tok.symbol).text,
                                    sid |-> createLocalSymbolToken(tok.symbol).sid],
                         !.warned = createLocalSymbolToken(tok.symbol).warned]
  /\ OnlyChanges("tok")

InitToken ==
  /\ InitBeside("tok")
  /\ \E symbol \in Symbols, stb \in Builders :
       tok = [pc |-> "call", symbol |-> symbol, stb |-> stb, before |-> stb,
              token |-> [text |-> <<>>, sid |-> SymbolIDUnknown], warned |-> FALSE]

NextToken ==
  \/ CreateSymbolToken
  \/ CreateLocalSymbolToken

SpecToken == InitToken /\ [][NextToken]_vars

\* C22  Symbol token construction has three exclusive modes.  After either
\* function returned: text that is "$" followed by digits has exactly the number
\* of the digits as its id; every other text that starts with "$" has the
\* unknown sentinel id; for text that starts with "$" the builder was neither
\* consulted nor changed; and createSymbolToken gives text that does not start
\* with "$" the id the builder has for it.
C22_SymbolTokenModes ==
  tok.pc \in {"createSymbolToken", "createLocalSymbolToken"} =>
    /\ tok.token.text = tok.symbol
    /\ DollarDigits(tok.symbol) => tok.token.sid = DigitsValue(Tail(tok.symbol), 0)
    /\ (HasDollar(tok.symbol) /\ ~DollarDigits(tok.symbol)) =>
         tok.token.sid = SymbolIDUnknown
    /\ HasDollar(tok.symbol) => tok.stb = tok.before
    /\ (~HasDollar(tok.symbol) /\ tok.pc = "createSymbolToken" /\ ~tok.before.nil) =>
         /\ tok.stb.adds = 1
         /\ tok.token.sid \in 1..Len(tok.stb.syms)
         /\ tok.stb.syms[tok.token.sid] = tok.symbol

\* ---------------------------------------------------------------------------
\* DetectFileUTF (src/processor/bomutils.go)

\* the byte order marks DetectUTF knows
bomUTF32BigEndian == <<0, 0, 254, 255>>
bomUTF32LittleEndian == <<255, 254, 0, 0>>
bomUTF8 == <<239, 187, 191>>
bomUTF16BigEndian == <<254, 255>>
bomUTF16LittleEndian == <<255, 254>>

\* buf := []byte{1, 1, 1, 1}
emptyBuf == <<1, 1, 1, 1>>

\* the bytes of the files: those of the byte order marks
BomByte == {0, 187, 191, 239, 254, 255}

\* buf opens with the mark bom
HasBom(buf, bom) == SubSeq(buf, 1, Len(bom)) = bom

\* DetectUTF
DetectUTF(buf) ==
  IF HasBom(buf, bomUTF32BigEndian) THEN "EncUTF32BigEndian"
  ELSE IF HasBom(buf, bomUTF32LittleEndian) THEN "EncUTF32LittleEndian"
  ELSE IF HasBom(buf, bomUTF8) THEN "EncUTF8"
  ELSE IF HasBom(buf, bomUTF16BigEndian) THEN "EncUTF16BigEndian"
  ELSE IF HasBom(buf, bomUTF16LittleEndian) THEN "EncUTF16LittleEndian"
  ELSE "EncUnknown"

\* the number of bytes file.Read(buf) gets at offset pos
ReadCount(content, pos, buf) ==
  IF pos >= Len(content) THEN 0
  ELSE IF Len(content) - pos < Len(buf) THEN Len(content) - pos ELSE Len(buf)

\* buf after file.Read(buf) at offset pos
ReadInto(content, pos, buf) ==
  [i \in 1..Len(buf) |->
     IF i <= ReadCount(content, pos, buf) THEN content[pos + i] ELSE buf[i]]

\* DetectFileUTF returns
DetectReturns(e) == [utf EXCEPT !.pc = "returned", !.err = e]

\* offset, err := file.Seek(0, io.SeekCurrent)
DetectSeekCurrent ==
  /\ utf.pc = "seekCurrent"
  /\ \/ utf' = [utf EXCEPT !.pc = "seekStart", !.offset = utf.pos]
     \/ utf' = DetectReturns("seek")
  /\ OnlyChanges("utf")

\* ref, err := file.Seek(0, io.SeekStart)
DetectSeekStart ==
  /\ utf.pc = "seekStart"
  /\ \/ utf' = [utf EXCEPT !.pc = "read", !.pos = 0]
     \/ utf' = DetectReturns("seek")
  /\ OnlyChanges("utf")

\* file.Read(buf): at the end of the file it reads nothing and returns io.EOF
DetectRead ==
  /\ utf.pc = "read"
  /\ \/ /\ ReadCount(utf.content, utf.pos, utf.buf) = 0
        /\ utf' = DetectReturns("EOF")
     \/ /\ ReadCount(utf.content, utf.pos, utf.buf) > 0
        /\ utf' = [utf EXCEPT !.pc = "restore",
                               !.buf = ReadInto(utf.content, utf.pos, utf.buf),
                               !.pos = utf.pos + ReadCount(utf.content, utf.pos, utf.buf)]
     \/ utf' = DetectReturns("read")
  /\ OnlyChanges("utf")

\* enc = DetectUTF(buf), then file.Seek(offset, io.SeekStart)
DetectRestore ==
  /\ utf.pc = "restore"
  /\ \/ utf' = [utf EXCEPT !.pc = "returned", !.enc = DetectUTF(utf.buf),
                            !.pos = utf.offset]
     \/ utf' = [utf EXCEPT !.pc = "returned", !.enc = DetectUTF(utf.buf), !.err = "seek"]
  /\ OnlyChanges("utf")

\* every file of up to MaxContentLen bytes, read up to any offset
InitUtf ==
  /\ InitBeside("utf")
  /\ \E content \in UNION {[1..n -> BomByte] : n \in 0..MaxContentLen},
         start \in 0..MaxContentLen :
       utf = [pc |-> "seekCurrent", content |-> content, start |-> start, pos |-> start,
              offset |-> 0, buf |-> emptyBuf, enc |-> "EncUnknown", err |-> "nil"]

NextUtf ==
  \/ DetectSeekCurrent
  \/ DetectSeekStart
  \/ DetectRead
  \/ DetectRestore

SpecUtf == InitUtf /\ [][NextUtf]_vars

\* C23  DetectFileUTF preserves the file position: when it has returned, the
\* file's read offset is the offset it had before the call, whatever that
\* offset and the file's content.
C23_PositionPreserved ==
  utf.pc = "returned" => utf.pos = utf.start

\* ---------------------------------------------------------------------------
\* archive.Unzip (src/archive/walker.go)
\*
\* A path is the sequence of its elements from the root; an entry name is the
\* sequence of the elements between its separators, so a name that starts with
\* a separator has the empty element first.

\* filepath.Clean of a rooted path given by its elements: empty elements and
\* "." are dropped, ".." drops the element before it and stays at the root
RECURSIVE Clean(_, _)
Clean(elems, acc) ==
  IF elems = <<>> THEN acc
  ELSE IF Head(elems) \in {"", "."} THEN Clean(Tail(elems), acc)
  ELSE IF Head(elems) = ".."
       THEN Clean(Tail(elems), IF acc = <<>> THEN acc ELSE SubSeq(acc, 1, Len(acc) - 1))
  ELSE Clean(Tail(elems), Append(acc, Head(elems)))

\* filepath.Join(dest, f.Name)
Join(dir, name) == Clean(dir \o name, <<>>)

\* filepath.Dir of a cleaned path
Dir(path) == IF path = <<>> THEN path ELSE SubSeq(path, 1, Len(path) - 1)

\* path and the directories above it
Ancestors(path) == {SubSeq(path, 1, n) : n \in 0..Len(path)}

\* path is dir or lies below it
Under(dir, path) == Len(path) >= Len(dir) /\ SubSeq(path, 1, Len(dir)) = dir

\* the directory Unzip extracts into: <outDir>/KDF
dest == <<"tmp", "KDF">>

\* the elements of entry names
NameElems == {"", "..", "a"}
EntryNames == UNION {[1..n -> NameElems] : n \in 1..MaxNameLen}

\* os.MkdirAll(path) fails when a file is in the way
MkdirAllFails(files, path) == Ancestors(path) \cap files # {}

\* Unzip returns
UnzipReturns(e) == [zip EXCEPT !.pc = "returned", !.err = e]

\* zip.OpenReader(archive)
UnzipOpen ==
  /\ zip.pc = "open"
  /\ \/ zip' = [zip EXCEPT !.pc = "entries"]
     \/ zip' = UnzipReturns("open")
  /\ OnlyChanges("zip")

\* one entry of r.File: f.Open, filepath.Join, then MkdirAll for a directory,
\* MkdirAll of the parent with os.Create and io.Copy for a file
UnzipEntry ==
  /\ zip.pc = "entries"
  /\ zip.n < MaxEntries
  /\ \E name \in EntryNames, isDir \in BOOLEAN :
       LET path == Join(dest, name)
           made == IF isDir THEN path ELSE Dir(path)
       IN \/ zip' = [UnzipReturns("f.Open") EXCEPT !.n = zip.n + 1, !.name = name]
          \/ /\ MkdirAllFails(zip.files, made)
             /\ zip' = [UnzipReturns("mkdir") EXCEPT !.n = zip.n + 1, !.name = name]
          \/ /\ ~MkdirAllFails(zip.files, made)
             /\ isDir
             /\ zip' = [zip EXCEPT !.n = zip.n + 1, !.name = name,
                                    !.dirs = zip.dirs \cup Ancestors(made)]
          \/ /\ ~MkdirAllFails(zip.files, made)
             /\ ~isDir
             /\ path \in zip.dirs \cup Ancestors(made)
             /\ zip' = [UnzipReturns("create") EXCEPT !.n = zip.n + 1, !.name = name,
                                    !.dirs = zip.dirs \cup Ancestors(made)]
          \/ /\ ~MkdirAllFails(zip.files, made)
             /\ ~isDir
             /\ path \notin zip.dirs \cup Ancestors(made)
             /\ \E e \in {"nil", "copy"} :
                  zip' = [zip EXCEPT !.n = zip.n + 1, !.name = name,
                                     !.dirs = zip.dirs \cup Ancestors(made),
                                     !.files = zip.files \cup {path},
                                     !.pc = IF e = "nil" THEN "entries" ELSE "returned",
                                     !.err = e]
  /\ OnlyChanges("zip")

\* r.File is exhausted: return nil
UnzipEnd ==
  /\ zip.pc = "entries"
  /\ zip' = UnzipReturns("nil")
  /\ OnlyChanges("zip")

\* unpackKpf has made dest (convert.go:68); nothing else is on the disk
InitUnzip ==
  /\ InitBeside("zip")
  /\ zip = [pc |-> "open", n |-> 0, name |-> <<>>, dirs |-> Ancestors(dest), files |-> {},
            err |-> "nil"]

NextUnzip ==
  \/ UnzipOpen
  \/ UnzipEntry
  \/ UnzipEnd

SpecUnzip == InitUnzip /\ [][NextUnzip]_vars

\* C24  Unzip writes only inside the destination directory: whatever the
\* entry names of the archive, every directory and every file Unzip has made is
\* dest or lies below it.
C24_WritesOnlyInsideDest ==
  \A path \in (zip.dirs \ Ancestors(dest)) \cup zip.files : Under(dest, path)

\* ---------------------------------------------------------------------------
\* two calls of ConvertFromKpf at once, each with its own input and its own
\* scratch directory.  All the state of a call is in its parameters, its locals
\* and its cnvrtr c (convert.go:417-419); the package has no variable a call
\* writes (ionBVM, part_002:11, is only read).  What the calls share is the disk.

Calls == {1, 2}
Other(p) == IF p = 1 THEN 2 ELSE 1

DirKdf == "KDF"

\* outDir of call p
outDir(p) == <<"tmp", IF p = 1 THEN "one" ELSE "two">>
\* kdfDir := filepath.Join(outDir, DirKdf)
kdfDir(p) == Join(outDir(p), <<DirKdf>>)
\* kdfBook := filepath.Join(kdfDir, "resources", "book.kdf")
kdfBookOf(p) == Join(kdfDir(p), <<"resources", "book.kdf">>)
\* sqlFile := filepath.Join(kdfDir, "book.sqlite")
sqlFileOf(p) == Join(kdfDir(p), <<"book.sqlite">>)

\* the disk with bytes written to the file at path
WriteAt(disk, path, bytes) ==
  [q \in DOMAIN disk \cup {path} |-> IF q = path THEN bytes ELSE disk[q]]

\* the file at path
FileAt(disk, path) == IF path \in DOMAIN disk THEN File(disk[path]) ELSE Absent

\* the files of the disk at or below dir
FilesUnder(disk, dir) == [q \in {r \in DOMAIN disk : Under(dir, r)} |-> disk[q]]

\* two scrambled books of the shortest length unwrapKdf accepts
PairBooks == {<<1, 0, 0, 1, 0, 0>>, <<1, 1, 0, 1, 0, 1>>}

\* the entry names of the container of call p: the book, and a name that climbs
\* out of kdfDir(p) to where the book of the other call is
PairNames(p) ==
  {<<"resources", "book.kdf">>,
   <<"..", "..", outDir(Other(p))[2], DirKdf, "resources", "book.kdf">>}

\* the containers call p may be given: one or two entries
PairArchives(p) ==
  LET entries == {[name |-> n, bytes |-> b] : n \in PairNames(p), b \in PairBooks}
  IN {<<e>> : e \in entries} \cup {<<e, f>> : e \in entries, f \in entries}

\* ConvertFromKpf of call p returns e
PairReturns(p, e) == [pair EXCEPT !.ex[p].pc = "returned", !.ex[p].result = e]

\* unpackKpf of call p: archive.Unzip extracts the next entry of the container
PairUnzipEntry ==
  \E p \in Calls :
     /\ pair.pc = "run"
     /\ pair.ex[p].pc = "unpack"
     /\ pair.ex[p].todo # <<>>
     /\ pair' = [pair EXCEPT
          !.disk = WriteAt(pair.disk, Join(kdfDir(p), Head(pair.ex[p].todo).name),
                           Head(pair.ex[p].todo).bytes),
          !.ex[p].todo = Tail(pair.ex[p].todo)]
     /\ OnlyChanges("pair")

\* unwrapKdf of call p, up to the write: os.ReadFile and the descrambling
PairUnwrapRead ==
  \E p \in Calls :
     /\ pair.pc = "run"
     /\ pair.ex[p].pc = "unpack"
     /\ pair.ex[p].todo = <<>>
     /\ LET r == unwrapKdf(FileAt(pair.disk, kdfBookOf(p)))
        IN pair' = IF r.err # Nil THEN PairReturns(p, r.err)
                   ELSE [pair EXCEPT !.ex[p].pc = "write", !.ex[p].unwrapped = r.out]
     /\ OnlyChanges("pair")

\* unwrapKdf of call p: os.WriteFile(sqlFile, unwrapped, 0600)
PairUnwrapWrite ==
  \E p \in Calls :
     /\ pair.pc = "run"
     /\ pair.ex[p].pc = "write"
     /\ pair' = [pair EXCEPT !.ex[p].pc = "db",
                              !.disk = WriteAt(pair.disk, sqlFileOf(p), pair.ex[p].unwrapped)]
     /\ OnlyChanges("pair")

\* the rest of call p: openDB and the readers work on the database at sqlFile,
\* then ConvertFromKpf returns; what it returns is a function of that database
PairReadDB ==
  \E p \in Calls :
     /\ pair.pc = "run"
     /\ pair.ex[p].pc = "db"
     /\ pair' = PairReturns(p, Err("fixme", FileAt(pair.disk, sqlFileOf(p)).bytes))
     /\ OnlyChanges("pair")

\* the locals of a call that is given container a
NewCall(a) == [pc |-> "unpack", input |-> a, todo |-> a, unwrapped |-> <<>>, result |-> Running]

\* two calls on different inputs, on an empty disk
InitPair ==
  /\ InitBeside("pair")
  /\ \E a \in PairArchives(1), b \in PairArchives(2) :
       /\ a # b
       /\ pair = [pc |-> "run", disk |-> <<>>, ex |-> <<NewCall(a), NewCall(b)>>]

NextPair ==
  \/ PairUnzipEntry
  \/ PairUnwrapRead
  \/ PairUnwrapWrite
  \/ PairReadDB

SpecPair == InitPair /\ [][NextPair]_vars

\* call p run alone on an empty disk: the disk after its container is extracted
RECURSIVE Extracted(_, _, _)
Extracted(p, todo, disk) ==
  IF todo = <<>> THEN disk
  ELSE Extracted(p, Tail(todo), WriteAt(disk, Join(kdfDir(p), Head(todo).name), Head(todo).bytes))

\* call p run alone on an empty disk: the disk when it has returned
AloneDisk(p, a) ==
  LET d == Extracted(p, a, <<>>)
      r == unwrapKdf(FileAt(d, kdfBookOf(p)))
  IN IF r.err # Nil THEN d ELSE WriteAt(d, sqlFileOf(p), r.out)

\* call p run alone on an empty disk: what it returns
AloneResult(p, a) ==
  LET r == unwrapKdf(FileAt(Extracted(p, a, <<>>), kdfBookOf(p)))
  IN IF r.err # Nil THEN r.err ELSE Err("fixme", r.out)

\* C21  Concurrent conversions are isolated: when two calls of ConvertFromKpf
\* on different inputs with different scratch directories have both returned,
\* under whatever interleaving of their steps, each has returned what it
\* returns when run alone and the files in its own scratch directory are those
\* it leaves when run alone.
C21_ConversionsIsolated ==
  (pair.pc = "run" /\ \A p \in Calls : pair.ex[p].pc = "returned") =>
    \A p \in Calls :
      /\ pair.ex[p].result = AloneResult(p, pair.ex[p].input)
      /\ FilesUnder(pair.disk, outDir(p)) =
           FilesUnder(AloneDisk(p, pair.ex[p].input), outDir(p))

\* ---------------------------------------------------------------------------
\* kpvExec on Windows (part_000) as NewKindlePreviewerEnv calls it
\* (src/config/previewer.go:63-81).  Three activities run at once: the caller,
\* the goroutine kpvExec starts to read pty.StdOut, and the previewer.  Lines
\* are counted, not spelled: written by the previewer, waiting in the pty, held
\* by the scanner (read, the callback not yet called), appended to out.
\* pty.Wait is taken to return once the previewer has exited; kpvExec has no
\* statement that waits for the goroutine.

\* kpvExec returns e: the deferred pty.Close runs once the pty is open
KpvReturns(e, opened) ==
  [kpv EXCEPT !.pc = "returned", !.err = e, !.closed = opened]

\* os.Executable, winpty.New, pty.Open, then go func() { ... }()
KpvOpen ==
  /\ kpv.pc = "open"
  /\ \/ kpv' = [kpv EXCEPT !.pc = "run", !.reader = "scanning"]
     \/ \E e \in {"path", "allocate", "open"} : kpv' = KpvReturns(e, FALSE)
  /\ OnlyChanges("kpv")

\* pty.Run(cmd)
KpvRun ==
  /\ kpv.pc = "run"
  /\ \/ kpv' = [kpv EXCEPT !.pc = "wait", !.prog = "running"]
     \/ kpv' = KpvReturns("run", TRUE)
  /\ OnlyChanges("kpv")

\* the previewer writes a line to the console
PreviewerWrites ==
  /\ kpv.prog = "running"
  /\ kpv.written < MaxLines
  /\ kpv' = [kpv EXCEPT !.written = kpv.written + 1, !.pty = kpv.pty + 1]
  /\ OnlyChanges("kpv")

\* the previewer exits
PreviewerExits ==
  /\ kpv.prog = "running"
  /\ kpv' = [kpv EXCEPT !.prog = "exited"]
  /\ OnlyChanges("kpv")

\* the goroutine: scanner.Scan() gets a line from the pty
ReaderScans ==
  /\ kpv.reader = "scanning"
  /\ ~kpv.closed
  /\ kpv.pty > 0
  /\ kpv' = [kpv EXCEPT !.pty = kpv.pty - 1, !.reader = "calling"]
  /\ OnlyChanges("kpv")

\* the goroutine: scanner.Scan() fails on the closed pty and the goroutine ends
ReaderEnds ==
  /\ kpv.reader = "scanning"
  /\ kpv.closed
  /\ kpv' = [kpv EXCEPT !.reader = "ended"]
  /\ OnlyChanges("kpv")

\* the goroutine: stdouter(scanner.Text()), which appends the line to out
ReaderCalls ==
  /\ kpv.reader = "calling"
  /\ kpv' = [kpv EXCEPT !.reader = "scanning", !.out = kpv.out + 1,
                        !.late = kpv.late + (IF kpv.pc = "wait" THEN 0 ELSE 1)]
  /\ OnlyChanges("kpv")

\* pty.Wait() returns after the previewer has exited, then kpvExec returns
KpvWait ==
  /\ kpv.pc = "wait"
  /\ kpv.prog = "exited"
  /\ \E e \in {"nil", "exit code"} : kpv' = KpvReturns(e, TRUE)
  /\ OnlyChanges("kpv")

\* NewKindlePreviewerEnv: for _, s := range out begins, or the error is returned
EnvScan ==
  /\ kpv.pc = "returned"
  /\ kpv' = IF kpv.err = "nil"
            THEN [kpv EXCEPT !.pc = "scanning", !.ranged = kpv.out]
            ELSE [kpv EXCEPT !.pc = "done"]
  /\ OnlyChanges("kpv")

\* NewKindlePreviewerEnv: the loop looks at the next line, or ends
EnvScanLine ==
  /\ kpv.pc = "scanning"
  /\ kpv' = IF kpv.seen < kpv.ranged
            THEN [kpv EXCEPT !.seen = kpv.seen + 1]
            ELSE [kpv EXCEPT !.pc = "done"]
  /\ OnlyChanges("kpv")

InitKpv ==
  /\ InitBeside("kpv")
  /\ kpv = [pc |-> "open", err |-> "nil", prog |-> "idle", reader |-> "none",
            closed |-> FALSE, written |-> 0, pty |-> 0, out |-> 0, late |-> 0,
            ranged |-> 0, seen |-> 0]

NextKpv ==
  \/ KpvOpen
  \/ KpvRun
  \/ PreviewerWrites
  \/ PreviewerExits
  \/ ReaderScans
  \/ ReaderEnds
  \/ ReaderCalls
  \/ KpvWait
  \/ EnvScan
  \/ EnvScanLine

SpecKpv == InitKpv /\ [][NextKpv]_vars

\* C27  kpvExec delivers the previewer's output completely before it returns:
\* once it has returned, every line the previewer wrote has been passed to the
\* callback, and the callback is not called any more, so out is not appended to
\* while or after NewKindlePreviewerEnv scans it.
C27_OutputCompleteAtReturn ==
  kpv.pc \in {"returned", "scanning", "done"} =>
    /\ kpv.out = kpv.written
    /\ kpv.late = 0

\* ---------------------------------------------------------------------------
\* FinalizeKFX (part_004:18-44)

\* a slip: the flag is not looked at
MayOverwriteAlways(overwrite) == TRUE

\* p.overwrite
MayOverwrite(overwrite) == overwrite

\* FinalizeKFX returns e
FinalizeReturns(e) == [fin EXCEPT !.pc = "returned", !.err = e]

\* os.MkdirAll(outDir, 0700)
FinalizeMkdir ==
  /\ fin.pc = "mkdir"
  /\ \/ fin' = [fin EXCEPT !.pc = "generate"]
     \/ fin' = FinalizeReturns("unable to create data directories")
  /\ OnlyChanges("fin")

\* kpf, err := p.generateKindlePreviewerContent(outDir)
FinalizeGenerate ==
  /\ fin.pc = "generate"
  /\ \/ fin' = [fin EXCEPT !.pc = "stat", !.generated = TRUE]
     \/ fin' = FinalizeReturns("unable to generate intermediate content")
  /\ OnlyChanges("fin")

\* os.Stat(fname) and the three branches on its error
FinalizeStat ==
  /\ fin.pc = "stat"
  /\ \/ /\ fin.out.exists
        /\ ~MayOverwrite(fin.overwrite)
        /\ fin' = FinalizeReturns("output file already exists")
     \/ /\ fin.out.exists
        /\ MayOverwrite(fin.overwrite)
        /\ \/ fin' = [fin EXCEPT !.pc = "convert", !.out = Absent, !.removed = TRUE]
           \/ fin' = FinalizeReturns("remove")
     \/ fin' = FinalizeReturns("stat")
     \/ /\ ~fin.out.exists
        /\ \/ fin' = [fin EXCEPT !.pc = "convert"]
           \/ fin' = FinalizeReturns("unable to create output directory")
  /\ OnlyChanges("fin")

\* return kfx.ConvertFromKpf(kpf, fname, outDir, p.env): it returns its error
\* and writes nothing to fname
FinalizeConvert ==
  /\ fin.pc = "convert"
  /\ fin' = [FinalizeReturns("FIX ME DONE: ConvertFromKpf") EXCEPT !.converts = fin.converts + 1]
  /\ OnlyChanges("fin")

\* the output file before the call: none, or one of a few
OldOutputs == {Absent} \cup {File(b) : b \in BytesUpTo(3)}

InitFinalize ==
  /\ InitBeside("fin")
  /\ \E old \in OldOutputs, overwrite \in BOOLEAN :
       fin = [pc |-> "mkdir", overwrite |-> overwrite, before |-> old, out |-> old,
              generated |-> FALSE, removed |-> FALSE, converts |-> 0, err |-> "nil"]

NextFinalize ==
  \/ FinalizeMkdir
  \/ FinalizeGenerate
  \/ FinalizeStat
  \/ FinalizeConvert

SpecFinalize == InitFinalize /\ [][NextFinalize]_vars

\* C28  FinalizeKFX removes an output file that was there only when overwrite
\* is set and only after the intermediate content was generated; when the
\* output file is there and overwrite is not set, FinalizeKFX returns an error,
\* leaves the file as it was and never calls ConvertFromKpf.
C28_OverwriteGuard ==
  /\ fin.pc # "none" =>
       /\ fin.removed => (fin.overwrite /\ fin.generated /\ fin.before.exists)
       /\ fin.out # fin.before => fin.removed
  /\ (fin.pc # "none" /\ fin.before.exists /\ ~fin.overwrite) =>
       /\ fin.converts = 0
       /\ fin.out = fin.before
       /\ fin.pc = "returned" => fin.err # "nil"

\* the content was generated, the output file is found in the way and the call
\* has returned the error for it
C28_Witness ==
  /\ fin.pc = "returned"
  /\ fin.before.exists /\ ~fin.overwrite /\ fin.generated
  /\ fin.err = "output file already exists"
  /\ fin.out = fin.before

\* ---------------------------------------------------------------------------
\* checkResults (part_004:77-147)

\* the column numbers, 0-based
hdrETStatus == 1
hdrStatus == 2
hdrErrors == 3
hdrBook == 5

\* strings.EqualFold on the strings of the model: equal after case folding
Folded(str) ==
  CASE str \in {"Supported", "SUPPORTED"} -> "supported"
    [] str \in {"Success", "SUCCESS"} -> "success"
    [] str \in {"Output File Path", "output file path"} -> "output file path"
    [] OTHER -> str
EqualFold(a, b) == Folded(a) = Folded(b)

\* rec[i] of Go, 0-based: out of range it panics
InRange(rec, i) == i < Len(rec)

\* a line of the summary cut to n columns
Columns(line, n) == [k \in 1..n |-> IF k <= Len(line) THEN line[k] ELSE "x"]

\* the header lines and the result lines the previewer may write
HeaderLines ==
  {<<"Book Name", "Enhanced Typesetting Status", "Conversion Status", "Error Count",
     "Quality Issue Count", h, "Log File Path", "Quality Report Path">> :
     h \in {"Output File Path", "output file path", "Log File Path"}}
RecordLines ==
  {<<"book", et, st, ec, "0", path, "log", "report">> :
     et \in {"Supported", "SUPPORTED", "Unsupported"}, st \in {"Success", "Failed"},
     ec \in {"0", "2"}, path \in {"", "book.kpf"}}

\* r.FieldsPerRecord = 0: ReadAll fails when a record has not as many fields
\* as the first
FieldCountError(headers, record) == Len(record) # Len(headers)

\* checkResults returns (path, e)
CheckReturns(path, e) == [csv EXCEPT !.pc = "returned", !.path = path, !.err = e]

\* checkResults panics: index out of range
CheckPanics == [csv EXCEPT !.pc = "panicked"]

\* os.Open, DetectFileUTF, r.ReadAll and the count of records
CheckRead ==
  /\ csv.pc = "read"
  /\ \/ \E e \in {"unable to open conversion summary", "unable to read conversion summary",
                    "unable to parse conversion summary", "wrong number of summary lines"} :
          csv' = CheckReturns("", e)
     \/ /\ FieldCountError(csv.headers, csv.record)
        /\ csv' = CheckReturns("", "unable to parse conversion summary")
     \/ /\ ~FieldCountError(csv.headers, csv.record)
        /\ csv' = [csv EXCEPT !.pc = "log"]
  /\ OnlyChanges("csv")

\* the loop that logs headers[i] with record[i] for i below len(headers)
CheckLog ==
  /\ csv.pc = "log"
  /\ csv' = IF \A i \in 0..(Len(csv.headers) - 1) : InRange(csv.record, i)
            THEN [csv EXCEPT !.pc = "check"]
            ELSE CheckPanics
  /\ OnlyChanges("csv")

\* the checks of the record, in the order of the code
CheckRecord ==
  /\ csv.pc = "check"
  /\ csv' =
       IF ~InRange(csv.record, hdrETStatus) THEN CheckPanics
       ELSE IF ~EqualFold(csv.record[hdrETStatus + 1], "Supported")
       THEN CheckReturns("", "wrong Enhanced Typesetting Status")
       ELSE IF ~InRange(csv.record, hdrStatus) THEN CheckPanics
       ELSE IF ~EqualFold(csv.record[hdrStatus + 1], "Success")
       THEN CheckReturns("", "wrong Conversion Status")
       ELSE IF ~InRange(csv.record, hdrErrors) THEN CheckPanics
       ELSE IF ~EqualFold(csv.record[hdrErrors + 1], "0")
       THEN CheckReturns("", "errors during conversion")
       ELSE IF ~InRange(csv.headers, hdrBook) THEN CheckPanics
       ELSE IF ~EqualFold(csv.headers[hdrBook + 1], "Output File Path")
       THEN CheckReturns("", "unable to detect resulting KPF path")
       ELSE IF ~InRange(csv.record, hdrBook) THEN CheckPanics
       ELSE IF Len(csv.record[hdrBook + 1]) = 0
       THEN CheckReturns("", "unable to detect resulting KPF, path is empty")
       ELSE IF ~csv.exists
       THEN CheckReturns("", "unable to find resulting KPF file")
       ELSE CheckReturns(csv.record[hdrBook + 1], "nil")
  /\ OnlyChanges("csv")

\* a summary of two lines of up to MaxColumns columns each
InitCsv ==
  /\ InitBeside("csv")
  /\ \E h \in HeaderLines, r \in RecordLines, n \in 1..MaxColumns, m \in 1..MaxColumns,
         exists \in BOOLEAN :
       csv = [pc |-> "read", headers |-> Columns(h, n), record |-> Columns(r, m),
              exists |-> exists, path |-> "", err |-> "nil"]

NextCsv ==
  \/ CheckRead
  \/ CheckLog
  \/ CheckRecord

SpecCsv == InitCsv /\ [][NextCsv]_vars

\* C29  checkResults never indexes outside a record: for every summary of two
\* records, whatever their number of columns, it returns a path or an error;
\* and it returns a path only if Enhanced Typesetting Status is "Supported",
\* Conversion Status is "Success" and Error Count is "0" whatever the case of
\* the letters, the sixth header is "Output File Path", and the path is not
\* empty and exists.
C29_NoIndexOutsideRecord ==
  /\ csv.pc # "panicked"
  /\ (csv.pc = "returned" /\ csv.err = "nil") =>
       /\ Len(csv.record) > hdrBook /\ Len(csv.headers) > hdrBook
       /\ Folded(csv.record[hdrETStatus + 1]) = "supported"
       /\ Folded(csv.record[hdrStatus + 1]) = "success"
       /\ csv.record[hdrErrors + 1] = "0"
       /\ Folded(csv.headers[hdrBook + 1]) = "output file path"
       /\ csv.path = csv.record[hdrBook + 1] /\ csv.path # "" /\ csv.exists

\* ---------------------------------------------------------------------------
\* processDir (part_006:489-532)
\*
\* The tree is the sequence of its entries in the order filepath.Walk reaches
\* them; Walk calls the callback once for each and stops at the first error the
\* callback returns.

\* what an entry is: a regular file, a directory, something else, or a path
\* Walk could not read (the callback gets the error)
EntryKinds == {"regular", "dir", "other", "unreadable"}

\* what the callback finds of a regular file, down the if/else chain
FileOutcomes ==
  {"isArchiveFile fails", "archive done", "archive fails", "isBookFile fails",
   "no book", "open fails", "book done", "book fails"}

\* the outcomes that are failures of the entry
Failures ==
  {"unreadable", "isArchiveFile fails", "archive fails", "isBookFile fails",
   "open fails", "book fails"}

\* the outcomes after count++
Counted == {"open fails", "book done", "book fails"}

\* a slip: the callback hands the failure to Walk
CallbackReturnsFailure(outcome) == IF outcome \in Failures THEN outcome ELSE "nil"

\* what the callback returns: return nil
CallbackReturns(outcome) == "nil"

\* one call of the callback by filepath.Walk, for the next entry of the tree
WalkVisit ==
  /\ walk.pc = "walking"
  /\ walk.next <= Len(walk.tree)
  /\ \E outcome \in IF walk.tree[walk.next] = "regular" THEN FileOutcomes
                      ELSE {walk.tree[walk.next]} :
       walk' = [walk EXCEPT
         !.visited = walk.visited \cup {walk.next},
         !.failed = IF outcome \in Failures THEN walk.failed \cup {walk.next} ELSE walk.failed,
         !.logged = IF outcome \in Failures THEN walk.logged \cup {walk.next} ELSE walk.logged,
         !.count = walk.count + (IF outcome \in Counted THEN 1 ELSE 0),
         !.next = walk.next + 1,
         !.pc = IF CallbackReturns(outcome) = "nil" THEN "walking" ELSE "returned",
         !.err = CallbackReturns(outcome)]
  /\ OnlyChanges("walk")

\* filepath.Walk has reached the end of the tree; processDir returns err
WalkEnd ==
  /\ walk.pc = "walking"
  /\ walk.next > Len(walk.tree)
  /\ walk' = [walk EXCEPT !.pc = "returned"]
  /\ OnlyChanges("walk")

\* every tree of up to MaxFiles entries
InitWalk ==
  /\ InitBeside("walk")
  /\ \E tree \in UNION {[1..n -> EntryKinds] : n \in 0..MaxFiles} :
       walk = [pc |-> "walking", tree |-> tree, next |-> 1, visited |-> {}, failed |-> {},
               logged |-> {}, count |-> 0, err |-> "nil"]

NextWalk ==
  \/ WalkVisit
  \/ WalkEnd

SpecWalk == InitWalk /\ [][NextWalk]_vars

\* C30  processDir isolates per-file failures: a failure of type detection,
\* opening or conversion of an entry is logged and nothing more, the callback
\* returns nil, so the walk goes on; when processDir has returned, every entry
\* of the tree has been visited, and the error it returns is the one
\* filepath.Walk returned, which is nil since no callback returned an error.
C30_FailuresIsolated ==
  walk.pc # "none" =>
    /\ walk.logged = walk.failed
    /\ walk.visited = 1..(walk.next - 1)
    /\ walk.err = "nil"
    /\ walk.pc = "returned" => walk.visited = 1..Len(walk.tree)

\* processDir has returned; the conversion of one file had failed and a
\* regular file after it was visited without a failure
C30_Witness ==
  /\ walk.pc = "returned"
  /\ \E i \in walk.failed : \E j \in walk.visited \ walk.failed :
       /\ i < j
       /\ walk.tree[i] = "regular" /\ walk.tree[j] = "regular"

====
